---- MODULE Spec2Model ----
(***************************************************************************)
(* Model of the cryptographic primitive layer of hash_clash_backend:       *)
(* the Kuznechik block cipher and its text framing, the Stribog password   *)
(* hashing service and the textbook RSA cipher.                            *)
(*                                                                         *)
(* Python integers are unbounded; a 128-bit block is modelled as the       *)
(* sequence of its 16 bytes, most significant byte first (the value        *)
(* int.from_bytes(b, 'big') / int.to_bytes(16, 'big') convert between).    *)
(***************************************************************************)
EXTENDS Integers, Sequences, FiniteSets, TLC

----------------------------------------------------------------------------
(* Bit operations on small non-negative integers.                          *)

RECURSIVE BitXor(_, _)
BitXor(a, b) ==
  IF a = 0 THEN b
  ELSE IF b = 0 THEN a
  ELSE ((a + b) % 2) + 2 * BitXor(a \div 2, b \div 2)

Byte == 0 .. 255

\* A function with domain 1 .. n as an explicit tuple.
AsTuple(f) == f \o << >>

\* e, with the value v evaluated first: TLC binds operator arguments
\* unevaluated, and a loop that threads a value through its iterations would
\* otherwise pile the whole loop up behind its last iteration.  For the same
\* reason a loop of n iterations is written below as its first half followed
\* by its second half, which nests the evaluation log n deep instead of n.
Strict(v, e) == IF v = v THEN e ELSE e

\* x ^ y on bytes, tabulated once (entry [x + 1][y + 1]).
XorTable == AsTuple([a \in 1 .. 256 |-> AsTuple([b \in 1 .. 256 |-> BitXor(a - 1, b - 1)])])

Xor(a, b) == XorTable[a + 1][b + 1]

\* Bytewise x ^ y of two byte strings of equal length.
XorSeq(x, y) == AsTuple([i \in 1 .. Len(x) |-> Xor(x[i], y[i])])

----------------------------------------------------------------------------
(* Kuznechik: core/utils/kuznechik/kuznechik.py                            *)

pi ==
  << 252, 238, 221, 17, 207, 110, 49, 22, 251, 196, 250, 218, 35, 197, 4, 77,
     233, 119, 240, 219, 147, 46, 153, 186, 23, 54, 241, 187, 20, 205, 95, 193,
     249, 24, 101, 90, 226, 92, 239, 33, 129, 28, 60, 66, 139, 1, 142, 79,
     5, 132, 2, 174, 227, 106, 143, 160, 6, 11, 237, 152, 127, 212, 211, 31,
     235, 52, 44, 81, 234, 200, 72, 171, 242, 42, 104, 162, 253, 58, 206, 204,
     181, 112, 14, 86, 8, 12, 118, 18, 191, 114, 19, 71, 156, 183, 93, 135,
     21, 161, 150, 41, 16, 123, 154, 199, 243, 145, 120, 111, 157, 158, 178, 177,
     50, 117, 25, 61, 255, 53, 138, 126, 109, 84, 198, 128, 195, 189, 13, 87,
     223, 245, 36, 169, 62, 168, 67, 201, 215, 121, 214, 246, 124, 34, 185, 3,
     224, 15, 236, 222, 122, 148, 176, 188, 220, 232, 40, 80, 78, 51, 10, 74,
     167, 151, 96, 115, 30, 0, 98, 68, 26, 184, 56, 130, 100, 159, 38, 65,
     173, 69, 70, 146, 39, 94, 85, 47, 140, 163, 165, 125, 105, 213, 149, 59,
     7, 88, 179, 64, 134, 172, 29, 247, 48, 55, 107, 228, 136, 217, 231, 137,
     225, 27, 131, 73, 76, 63, 248, 254, 141, 83, 170, 144, 202, 216, 133, 97,
     32, 113, 103, 164, 45, 43, 9, 91, 203, 155, 37, 208, 190, 229, 108, 82,
     89, 166, 116, 210, 230, 244, 180, 192, 209, 102, 175, 194, 57, 75, 99, 182 >>

pi_inv ==
  << 165, 45, 50, 143, 14, 48, 56, 192, 84, 230, 158, 57, 85, 126, 82, 145,
     100, 3, 87, 90, 28, 96, 7, 24, 33, 114, 168, 209, 41, 198, 164, 63,
     224, 39, 141, 12, 130, 234, 174, 180, 154, 99, 73, 229, 66, 228, 21, 183,
     200, 6, 112, 157, 65, 117, 25, 201, 170, 252, 77, 191, 42, 115, 132, 213,
     195, 175, 43, 134, 167, 177, 178, 91, 70, 211, 159, 253, 212, 15, 156, 47,
     155, 67, 239, 217, 121, 182, 83, 127, 193, 240, 35, 231, 37, 94, 181, 30,
     162, 223, 166, 254, 172, 34, 249, 226, 74, 188, 53, 202, 238, 120, 5, 107,
     81, 225, 89, 163, 242, 113, 86, 17, 106, 137, 148, 101, 140, 187, 119, 60,
     123, 40, 171, 210, 49, 222, 196, 95, 204, 207, 118, 44, 184, 216, 46, 54,
     219, 105, 179, 20, 149, 190, 98, 161, 59, 22, 102, 233, 92, 108, 109, 173,
     55, 97, 75, 185, 227, 186, 241, 160, 133, 131, 218, 71, 197, 176, 51, 250,
     150, 111, 110, 194, 246, 80, 255, 93, 169, 142, 23, 27, 151, 125, 236, 88,
     247, 31, 251, 124, 9, 13, 122, 103, 69, 135, 220, 232, 79, 29, 78, 4,
     235, 248, 243, 62, 61, 189, 138, 136, 221, 205, 11, 19, 152, 2, 147, 128,
     144, 208, 36, 52, 203, 237, 244, 206, 153, 16, 68, 64, 146, 58, 1, 38,
     18, 26, 72, 104, 245, 129, 139, 199, 214, 32, 10, 8, 0, 76, 215, 116 >>

BlockLen == 16

\* S(x): every byte of the 128-bit value through pi.
S(x) == AsTuple([i \in 1 .. BlockLen |-> pi[x[i] + 1]])

\* S_inv reading the forward table.
S_inv_forward(x) == AsTuple([i \in 1 .. BlockLen |-> pi[x[i] + 1]])

S_inv(x) == AsTuple([i \in 1 .. BlockLen |-> pi_inv[x[i] + 1]])

\* x ^ y on values below 2^16.
Xor16(a, b) == Xor(a \div 256, b \div 256) * 256 + Xor(a % 256, b % 256)

\* The while loop of multiply_ints_as_polynomials on (x, y, z).
RECURSIVE MultiplyLoop(_, _, _)
MultiplyLoop(x, y, z) ==
  IF x = 0 THEN z
  ELSE LET z2 == IF x % 2 = 1 THEN Xor16(z, y) ELSE z
       IN  Strict(z2, MultiplyLoop(x \div 2, 2 * y, z2))

multiply_ints_as_polynomials(x, y) ==
  IF x = 0 \/ y = 0 THEN 0 ELSE MultiplyLoop(x, y, 0)

RECURSIVE number_bits(_)
number_bits(x) == IF x = 0 THEN 0 ELSE 1 + number_bits(x \div 2)

RECURSIVE Pow2(_)
Pow2(k) == IF k = 0 THEN 1 ELSE 2 * Pow2(k - 1)

RECURSIVE mod_int_as_polynomial(_, _)
mod_int_as_polynomial(x, m) ==
  LET nbm == number_bits(m)
      nbx == number_bits(x)
  IN  IF nbx < nbm THEN x
      ELSE LET x2 == Xor16(x, m * Pow2(nbx - nbm))
           IN  Strict(x2, mod_int_as_polynomial(x2, m))

\* int("111000011", 2)
ReductionPoly == 451

kuznechik_multiplication(x, y) ==
  mod_int_as_polynomial(multiply_ints_as_polynomials(x, y), ReductionPoly)

\* The coefficient list C of kuznechik_linear_functional.
LinearC == << 148, 32, 133, 16, 194, 192, 1, 251, 1, 192, 194, 16, 133, 32, 148, 1 >>

LinearCoefs == { LinearC[i] : i \in 1 .. BlockLen }

\* kuznechik_multiplication(x, c) for the coefficients c, tabulated once.
MulTable ==
  AsTuple([c \in 1 .. 256 |->
    IF c - 1 \in LinearCoefs
    THEN AsTuple([x \in 1 .. 256 |-> kuznechik_multiplication(x - 1, c - 1)])
    ELSE << >>])

\* The XOR of the products at the positions lo .. hi of x.
RECURSIVE LinearSum(_, _, _)
LinearSum(x, lo, hi) ==
  IF lo = hi THEN MulTable[LinearC[lo] + 1][x[lo] + 1]
  ELSE LET mid == (lo + hi) \div 2
       IN  Xor(LinearSum(x, lo, mid), LinearSum(x, mid + 1, hi))

\* C.pop() pairs the lowest byte of x with C[15], the next with C[14], ...:
\* the byte at big-endian position i meets C[i - 1].
kuznechik_linear_functional(x) == LinearSum(x, 1, BlockLen)

\* The register stepped the other way: (x << 8) & (2**128 - 1) with the byte a in
\* the low position.
R_low(x) == SubSeq(x, 2, BlockLen) \o << kuznechik_linear_functional(x) >>

\* (a << 8 * 15) ^ (x >> 8)
R(x) == << kuznechik_linear_functional(x) >> \o SubSeq(x, 1, BlockLen - 1)

\* R_inv computing the functional without the byte shifted out.
R_inv_unfed(x) ==
  LET shifted == SubSeq(x, 2, BlockLen) \o << 0 >>
      b == kuznechik_linear_functional(shifted)
  IN  [shifted EXCEPT ![BlockLen] = Xor(shifted[BlockLen], b)]

R_inv(x) ==
  LET a == x[1]
      shifted == SubSeq(x, 2, BlockLen) \o << 0 >>
      b == kuznechik_linear_functional([shifted EXCEPT ![BlockLen] = Xor(shifted[BlockLen], a)])
  IN  [shifted EXCEPT ![BlockLen] = Xor(shifted[BlockLen], b)]

\* for _ in range(n): x = R(x)
RECURSIVE Iterate_R(_, _)
Iterate_R(x, n) ==
  IF n = 0 THEN x
  ELSE IF n = 1 THEN R(x)
  ELSE LET y == Iterate_R(x, n \div 2) IN Strict(y, Iterate_R(y, n - (n \div 2)))

\* for _ in range(n): x = R_inv(x)
RECURSIVE Iterate_R_inv(_, _)
Iterate_R_inv(x, n) ==
  IF n = 0 THEN x
  ELSE IF n = 1 THEN R_inv(x)
  ELSE LET y == Iterate_R_inv(x, n \div 2) IN Strict(y, Iterate_R_inv(y, n - (n \div 2)))

L(x) == Iterate_R(x, 16)

\* L_inv one R_inv short.
L_inv_short(x) == Iterate_R_inv(x, 15)

L_inv(x) == Iterate_R_inv(x, 16)

KeyLen == 32

\* DEFAULT_KEY = 0x8899aabbccddeeff0011223344556677fedcba98765432100123456789abcdef
DEFAULT_KEY ==
  << 136, 153, 170, 187, 204, 221, 238, 255, 0, 17, 34, 51, 68, 85, 102, 119,
     254, 220, 186, 152, 118, 84, 50, 16, 1, 35, 69, 103, 137, 171, 205, 239 >>

\* The small integer n (< 256) as a 128-bit value.
SmallBlock(n) == AsTuple([i \in 1 .. BlockLen |-> IF i = BlockLen THEN n ELSE 0])

\* One inner step of the key schedule: c = L(8 * i + j + 1);
\* (a, b) = (L(S(a ^ c)) ^ b, a)
ScheduleStep(ab, i, j) ==
  LET c == L(SmallBlock(8 * i + j + 1))
      a == ab[1]
      b == ab[2]
  IN  << XorSeq(L(S(XorSeq(a, c))), b), a >>

\* The inner steps j = lo .. hi - 1 of outer iteration i on the pair (a, b).
RECURSIVE ScheduleInner(_, _, _, _)
ScheduleInner(ab, i, lo, hi) ==
  IF hi - lo = 1 THEN ScheduleStep(ab, i, lo)
  ELSE LET mid == (lo + hi) \div 2
           nxt == ScheduleInner(ab, i, lo, mid)
       IN  Strict(nxt, ScheduleInner(nxt, i, mid, hi))

\* The outer iterations i = lo .. hi - 1 on << keys, (a, b) >>: eight inner
\* steps, then keys.append(a); keys.append(b).
RECURSIVE ScheduleOuter(_, _, _)
ScheduleOuter(st, lo, hi) ==
  IF hi - lo = 1
  THEN LET nxt == ScheduleInner(st[2], lo, 0, 8) IN << st[1] \o nxt, nxt >>
  ELSE LET mid == (lo + hi) \div 2
           half == ScheduleOuter(st, lo, mid)
       IN  Strict(half, ScheduleOuter(half, mid, hi))

\* kuznechik_key_schedule taking the halves of the key in the other order.
kuznechik_key_schedule_swapped(k) ==
  LET a == SubSeq(k, BlockLen + 1, KeyLen)
      b == SubSeq(k, 1, BlockLen)
  IN  ScheduleOuter(<< << a, b >>, << a, b >> >>, 0, 4)[1]

kuznechik_key_schedule(k) ==
  LET a == SubSeq(k, 1, BlockLen)
      b == SubSeq(k, BlockLen + 1, KeyLen)
  IN  ScheduleOuter(<< << a, b >>, << a, b >> >>, 0, 4)[1]

\* keys.reverse()
Reverse(s) == AsTuple([i \in 1 .. Len(s) |-> s[Len(s) + 1 - i]])

\* The rounds lo .. hi - 1 of kuznechik_encrypt: x = L(S(x ^ keys[round]))
RECURSIVE EncryptRounds(_, _, _, _)
EncryptRounds(x, keys, lo, hi) ==
  IF hi - lo = 1 THEN L(S(XorSeq(x, keys[lo + 1])))
  ELSE LET mid == (lo + hi) \div 2
           y == EncryptRounds(x, keys, lo, mid)
       IN  Strict(y, EncryptRounds(y, keys, mid, hi))

\* The rounds lo .. hi - 1 of kuznechik_decrypt: x = S_inv(L_inv(x ^ keys[round]))
RECURSIVE DecryptRounds(_, _, _, _)
DecryptRounds(x, keys, lo, hi) ==
  IF hi - lo = 1 THEN S_inv(L_inv(XorSeq(x, keys[lo + 1])))
  ELSE LET mid == (lo + hi) \div 2
           y == DecryptRounds(x, keys, lo, mid)
       IN  Strict(y, DecryptRounds(y, keys, mid, hi))

\* The body of kuznechik_encrypt on the round keys: 9 rounds, then x ^ keys[-1].
EncryptWith(x, keys) == Strict(keys, XorSeq(EncryptRounds(x, keys, 0, 9), keys[Len(keys)]))

\* The body of kuznechik_decrypt on the reversed round keys.
DecryptWith(x, keys) == Strict(keys, XorSeq(DecryptRounds(x, keys, 0, 9), keys[Len(keys)]))

\* kuznechik_encrypt on an int message.
kuznechik_encrypt(msg, k) == EncryptWith(msg, kuznechik_key_schedule(k))

\* kuznechik_decrypt with return_type = 'int'.
kuznechik_decrypt(x, k) == DecryptWith(x, Reverse(kuznechik_key_schedule(k)))


----------------------------------------------------------------------------
(* Stribog: core/utils/stribog/stribog.py.  A byte string is a sequence of *)
(* bytes; Python's index i is the sequence's index i + 1.                  *)

BLOCKSIZE == 64

\* Pi of the hash is the substitution table of the cipher.
Pi == pi

Tau ==
  << 0, 8, 16, 24, 32, 40, 48, 56, 1, 9, 17, 25, 33, 41, 49, 57,
     2, 10, 18, 26, 34, 42, 50, 58, 3, 11, 19, 27, 35, 43, 51, 59,
     4, 12, 20, 28, 36, 44, 52, 60, 5, 13, 21, 29, 37, 45, 53, 61,
     6, 14, 22, 30, 38, 46, 54, 62, 7, 15, 23, 31, 39, 47, 55, 63 >>

\* A[j] as its 8 bytes in little-endian order (pack('<Q', A[j])).
A ==
  << << 112, 180, 160, 43, 167, 250, 32, 142 >>,
     << 56, 90, 80, 155, 221, 125, 16, 71 >>,
     << 28, 45, 40, 195, 224, 176, 8, 173 >>,
     << 14, 152, 20, 239, 112, 88, 4, 216 >>,
     << 7, 76, 10, 249, 56, 44, 2, 108 >>,
     << 141, 38, 5, 242, 28, 22, 1, 54 >>,
     << 200, 19, 140, 121, 14, 11, 142, 27 >>,
     << 100, 135, 70, 178, 7, 139, 71, 131 >>,
     << 64, 143, 142, 129, 128, 211, 17, 160 >>,
     << 32, 201, 71, 206, 64, 231, 134, 80 >>,
     << 16, 234, 173, 103, 32, 253, 67, 40 >>,
     << 8, 117, 216, 189, 16, 240, 175, 20 >>,
     << 4, 180, 108, 208, 8, 120, 217, 10 >>,
     << 2, 90, 54, 104, 4, 60, 226, 5 >>,
     << 1, 45, 27, 52, 2, 30, 113, 140 >>,
     << 142, 152, 131, 26, 1, 15, 182, 70 >>,
     << 111, 231, 122, 56, 42, 181, 218, 144 >>,
     << 185, 253, 61, 28, 21, 212, 109, 72 >>,
     << 210, 240, 144, 14, 132, 106, 184, 36 >>,
     << 105, 120, 72, 7, 66, 53, 92, 18 >>,
     << 186, 60, 36, 141, 33, 148, 46, 9 >>,
     << 93, 30, 18, 200, 158, 74, 23, 138 >>,
     << 160, 15, 9, 100, 79, 37, 133, 69 >>,
     << 80, 137, 138, 50, 169, 156, 204, 172 >>,
     << 81, 20, 102, 95, 93, 240, 77, 157 >>,
     << 166, 10, 51, 161, 160, 120, 168, 192 >>,
     << 83, 5, 151, 222, 80, 60, 84, 96 >>,
     << 167, 140, 197, 111, 40, 30, 42, 48 >>,
     << 221, 70, 236, 185, 20, 15, 21, 24 >>,
     << 224, 35, 118, 210, 10, 137, 132, 12 >>,
     << 112, 159, 59, 105, 5, 202, 66, 6 >>,
     << 56, 193, 147, 186, 140, 101, 33, 3 >>,
     << 168, 170, 232, 156, 240, 93, 39, 134 >>,
     << 84, 85, 116, 78, 120, 160, 157, 67 >>,
     << 42, 164, 58, 39, 60, 80, 192, 175 >>,
     << 21, 82, 29, 157, 30, 40, 96, 217 >>,
     << 132, 41, 128, 192, 15, 20, 48, 226 >>,
     << 66, 154, 64, 96, 137, 10, 24, 113 >>,
     << 33, 77, 32, 48, 202, 5, 12, 182 >>,
     << 158, 168, 16, 24, 101, 140, 6, 91 >>,
     << 185, 5, 56, 122, 136, 52, 108, 69 >>,
     << 210, 140, 28, 61, 68, 26, 54, 172 >>,
     << 105, 70, 14, 144, 34, 13, 27, 86 >>,
     << 186, 35, 7, 72, 17, 136, 131, 43 >>,
     << 93, 159, 141, 36, 134, 68, 207, 155 >>,
     << 160, 193, 200, 18, 67, 34, 233, 195 >>,
     << 80, 238, 100, 9, 175, 17, 250, 239 >>,
     << 40, 119, 50, 138, 217, 134, 125, 249 >>,
     << 156, 50, 11, 168, 84, 32, 250, 228 >>,
     << 78, 25, 139, 84, 42, 16, 125, 114 >>,
     << 39, 130, 203, 42, 21, 8, 176, 57 >>,
     << 157, 65, 235, 21, 132, 4, 88, 146 >>,
     << 192, 174, 251, 132, 66, 2, 44, 73 >>,
     << 96, 87, 243, 66, 33, 1, 22, 170 >>,
     << 48, 165, 247, 33, 158, 142, 11, 85 >>,
     << 24, 220, 245, 158, 79, 71, 139, 164 >>,
     << 142, 89, 64, 36, 110, 165, 166, 112 >>,
     << 71, 162, 32, 18, 55, 220, 83, 56 >>,
     << 173, 81, 16, 9, 149, 110, 167, 28 >>,
     << 216, 166, 8, 138, 196, 55, 221, 14 >>,
     << 108, 83, 4, 69, 98, 149, 224, 7 >>,
     << 54, 167, 2, 172, 49, 196, 112, 141 >>,
     << 27, 221, 1, 86, 150, 98, 56, 200 >>,
     << 131, 224, 142, 43, 75, 49, 28, 100 >> >>

C ==
  << << 7, 69, 166, 242, 89, 101, 128, 221, 35, 77, 116, 204, 54, 116, 118, 5,
        21, 211, 96, 164, 8, 42, 66, 162, 1, 105, 103, 146, 145, 224, 124, 75,
        252, 196, 133, 117, 141, 184, 78, 113, 22, 208, 69, 46, 67, 118, 106, 47,
        31, 124, 101, 192, 129, 47, 203, 235, 233, 218, 202, 30, 218, 91, 8, 177 >>,
     << 183, 155, 177, 33, 112, 4, 121, 230, 86, 205, 203, 215, 27, 162, 221, 85,
        202, 167, 10, 219, 194, 97, 181, 92, 88, 153, 214, 18, 107, 23, 181, 154,
        49, 1, 181, 22, 15, 94, 213, 97, 152, 43, 35, 10, 114, 234, 254, 243,
        215, 181, 112, 15, 70, 157, 227, 79, 26, 47, 157, 169, 138, 181, 163, 111 >>,
     << 178, 10, 186, 10, 245, 150, 30, 153, 49, 219, 122, 134, 67, 244, 182, 194,
        9, 219, 98, 96, 55, 58, 201, 193, 177, 158, 53, 144, 228, 15, 226, 211,
        123, 123, 41, 177, 20, 117, 234, 242, 139, 31, 156, 82, 95, 94, 241, 6,
        53, 132, 61, 106, 40, 252, 57, 10, 199, 47, 206, 43, 172, 220, 116, 245 >>,
     << 46, 209, 227, 132, 188, 190, 12, 34, 241, 55, 232, 147, 161, 234, 83, 52,
        190, 3, 82, 147, 51, 19, 183, 216, 117, 214, 3, 237, 130, 44, 215, 169,
        63, 53, 94, 104, 173, 28, 114, 157, 125, 60, 92, 51, 126, 133, 142, 72,
        221, 228, 113, 93, 160, 225, 72, 249, 210, 102, 21, 232, 179, 223, 31, 239 >>,
     << 87, 254, 108, 124, 253, 88, 23, 96, 245, 99, 234, 169, 126, 162, 86, 122,
        22, 26, 39, 35, 183, 0, 255, 223, 163, 245, 58, 37, 71, 23, 205, 191,
        189, 255, 15, 128, 215, 53, 158, 53, 74, 16, 134, 22, 31, 28, 21, 127,
        99, 35, 169, 108, 12, 65, 63, 154, 153, 71, 71, 173, 172, 107, 234, 75 >>,
     << 110, 125, 100, 70, 122, 64, 104, 250, 53, 79, 144, 54, 114, 197, 113, 191,
        182, 198, 190, 194, 102, 31, 242, 10, 180, 183, 154, 28, 183, 166, 250, 207,
        198, 142, 240, 154, 180, 154, 127, 24, 108, 164, 66, 81, 249, 196, 102, 45,
        192, 57, 48, 122, 59, 195, 164, 111, 217, 211, 58, 29, 174, 174, 79, 174 >>,
     << 147, 212, 20, 58, 77, 86, 134, 136, 243, 74, 60, 162, 76, 69, 23, 53,
        4, 5, 74, 40, 131, 105, 71, 6, 55, 44, 130, 45, 197, 171, 146, 9,
        201, 147, 122, 25, 51, 62, 71, 211, 201, 135, 191, 230, 199, 198, 158, 57,
        84, 9, 36, 191, 254, 134, 172, 81, 236, 197, 170, 238, 22, 14, 199, 244 >>,
     << 30, 231, 2, 191, 212, 13, 127, 164, 217, 168, 81, 89, 53, 194, 172, 54,
        47, 196, 165, 209, 43, 141, 209, 105, 144, 6, 155, 146, 203, 43, 137, 244,
        154, 196, 219, 77, 59, 68, 180, 137, 30, 222, 54, 156, 113, 248, 183, 78,
        65, 65, 110, 12, 2, 170, 231, 3, 167, 201, 147, 77, 66, 91, 31, 155 >>,
     << 219, 90, 35, 131, 81, 68, 97, 114, 96, 42, 31, 203, 146, 220, 56, 14,
        84, 156, 7, 166, 154, 138, 43, 123, 177, 206, 178, 219, 11, 68, 10, 128,
        132, 9, 13, 224, 183, 85, 217, 60, 36, 66, 137, 37, 27, 58, 125, 58,
        222, 95, 22, 236, 216, 154, 76, 148, 155, 34, 49, 22, 84, 90, 143, 55 >>,
     << 237, 156, 69, 152, 251, 199, 180, 116, 195, 182, 59, 21, 209, 250, 152, 54,
        244, 82, 118, 59, 48, 108, 30, 122, 75, 51, 105, 175, 2, 103, 231, 159,
        3, 97, 51, 27, 138, 225, 255, 31, 219, 120, 138, 255, 28, 231, 65, 137,
        243, 243, 228, 178, 72, 229, 42, 56, 82, 111, 5, 128, 166, 222, 190, 171 >>,
     << 27, 45, 243, 129, 205, 164, 202, 107, 93, 216, 111, 192, 74, 89, 162, 222,
        152, 110, 71, 125, 29, 205, 186, 239, 202, 185, 72, 234, 239, 113, 29, 138,
        121, 102, 132, 20, 33, 128, 1, 32, 97, 7, 171, 235, 187, 107, 250, 216,
        148, 254, 90, 99, 205, 198, 2, 48, 251, 137, 200, 239, 208, 158, 205, 123 >>,
     << 32, 215, 27, 241, 74, 146, 188, 72, 153, 27, 178, 217, 213, 23, 244, 250,
        82, 40, 225, 136, 170, 164, 29, 231, 134, 204, 145, 24, 157, 239, 128, 93,
        155, 159, 33, 48, 212, 18, 32, 248, 119, 29, 223, 188, 50, 60, 164, 205,
        122, 177, 73, 4, 176, 128, 19, 210, 186, 49, 22, 241, 103, 231, 142, 55 >> >>

\* n < 2^31 as pack("<Q", n): 8 bytes, least significant first.
PackLE64(n) ==
  << n % 256, (n \div 256) % 256, (n \div 65536) % 256, (n \div 16777216) % 256,
     0, 0, 0, 0 >>

\* Bit t (0 = least significant) of the byte v.
BitOf(v, t) == (v \div Pow2(t)) % 2

\* strxor: the bytewise XOR over the shorter of the two lengths.
strxor(a, b) ==
  LET mlen == IF Len(a) < Len(b) THEN Len(a) ELSE Len(b)
  IN  AsTuple([i \in 1 .. mlen |-> Xor(a[i], b[i])])

\* The loop of add512bit over the bytes lo .. hi with cb coming in:
\* cb = a[i] + b[i] + (cb >> 8); res[i] = cb & 0xff.  << res[lo .. hi], cb >>
RECURSIVE AddCarry(_, _, _, _, _)
AddCarry(a, b, lo, hi, cb) ==
  IF lo = hi
  THEN LET c == a[lo] + b[lo] + (cb \div 256) IN << << c % 256 >>, c >>
  ELSE LET mid == (lo + hi) \div 2
           low == AddCarry(a, b, lo, mid, cb)
           high == AddCarry(a, b, mid + 1, hi, low[2])
       IN  Strict(low, << low[1] \o high[1], high[2] >>)

\* The bytes added one by one, no carry passing from a byte to the next.
add512bit_carryless(a, b) == AsTuple([i \in 1 .. BLOCKSIZE |-> (a[i] + b[i]) % 256])

add512bit(a, b) == AddCarry(a, b, 1, BLOCKSIZE, 0)[1]

\* PS: res[Tau[i]] = Pi[data[i]] for every i.
TauSource == AsTuple([k \in 1 .. BLOCKSIZE |-> CHOOSE i \in 1 .. BLOCKSIZE : Tau[i] = k - 1])

stribog_PS(data) == AsTuple([k \in 1 .. BLOCKSIZE |-> Pi[data[TauSource[k]] + 1]])

\* The loop of L over one 64-bit lane tests bit 63 - j of val against A[j].
\* Bit 63 - j lies in byte b = (63 - j) \div 8 of the lane (little-endian) at
\* bit t = (63 - j) % 8; the rows selected by one byte of the lane are summed
\* here, LaneTable tabulates the sums once and stribog_L adds up the eight
\* bytes of each lane.
RECURSIVE LaneByte(_, _, _)
LaneByte(b, v, t) ==
  IF t = 8 THEN << 0, 0, 0, 0, 0, 0, 0, 0 >>
  ELSE LET rest == LaneByte(b, v, t + 1)
       IN  IF BitOf(v, t) = 1 THEN XorSeq(A[63 - (8 * b + t) + 1], rest) ELSE rest

LaneTable ==
  AsTuple([b \in 1 .. 8 |-> AsTuple([v \in 1 .. 256 |-> LaneByte(b - 1, v - 1, 0)])])

\* The sum over the bytes lo .. hi of lane i.
RECURSIVE LaneSum(_, _, _, _)
LaneSum(data, i, lo, hi) ==
  IF lo = hi THEN LaneTable[lo + 1][data[8 * i + lo + 1] + 1]
  ELSE LET mid == (lo + hi) \div 2
       IN  XorSeq(LaneSum(data, i, lo, mid), LaneSum(data, i, mid + 1, hi))

stribog_L(data) ==
  LET lanes == AsTuple([i \in 1 .. 8 |-> LaneSum(data, i - 1, 0, 7)])
  IN  AsTuple([k \in 1 .. BLOCKSIZE |-> lanes[((k - 1) \div 8) + 1][((k - 1) % 8) + 1]])

stribog_LPS(data) == stribog_L(stribog_PS(data))

\* The rounds lo .. hi - 1 of E on << k, msg >>:
\* msg = LPS(strxor(k, msg)); k = LPS(strxor(k, C[i]))
RECURSIVE stribog_E_rounds(_, _, _)
stribog_E_rounds(st, lo, hi) ==
  IF hi - lo = 1
  THEN << stribog_LPS(strxor(st[1], C[lo + 1])), stribog_LPS(strxor(st[1], st[2])) >>
  ELSE LET mid == (lo + hi) \div 2
           half == stribog_E_rounds(st, lo, mid)
       IN  Strict(half, stribog_E_rounds(half, mid, hi))

stribog_E(k, msg) ==
  LET st == stribog_E_rounds(<< k, msg >>, 0, 12)
  IN  strxor(st[1], st[2])

stribog_g(n, hsh, msg) ==
  LET res == stribog_E(stribog_LPS(strxor(SubSeq(hsh, 1, 8), PackLE64(n))
                                     \o SubSeq(hsh, 9, BLOCKSIZE)), msg)
  IN  strxor(strxor(res, hsh), msg)

Repeat(v, n) == AsTuple([i \in 1 .. n |-> v])

\* << hsh, chk, n, calls >> with the accumulator the other digest size starts
\* from.
DigestStart_other_iv(digest_size) ==
  << Repeat(IF digest_size = 256 THEN 0 ELSE 1, BLOCKSIZE), Repeat(0, BLOCKSIZE), 0, << >> >>

\* The locals of digest before its loop, as << hsh, chk, n, calls >>; calls
\* lists the calls of g made so far, each with the n, hsh and msg given to g
\* and the chk at the time of the call.
DigestStart(digest_size) ==
  << Repeat(IF digest_size = 256 THEN 1 ELSE 0, BLOCKSIZE), Repeat(0, BLOCKSIZE), 0, << >> >>

GCall(n, hsh, chk, msg) == [n |-> n, hsh |-> hsh, chk |-> chk, msg |-> msg]

\* One pass of the loop of digest, on the block at offset i and the state
\* << hsh, chk, n, calls >>.
DigestStep(data, i, st) ==
  << stribog_g(st[3], st[1], SubSeq(data, i + 1, i + BLOCKSIZE)),
     add512bit(st[2], SubSeq(data, i + 1, i + BLOCKSIZE)),
     st[3] + 512,
     Append(st[4], GCall(st[3], st[1], st[2], SubSeq(data, i + 1, i + BLOCKSIZE))) >>

\* The loop of digest over the complete blocks numbered lo .. hi - 1.
RECURSIVE DigestBlocks(_, _, _, _)
DigestBlocks(data, st, lo, hi) ==
  IF hi <= lo THEN st
  ELSE IF hi - lo = 1 THEN DigestStep(data, lo * BLOCKSIZE, st)
  ELSE LET mid == (lo + hi) \div 2
           half == DigestBlocks(data, st, lo, mid)
       IN  Strict(half, DigestBlocks(data, half, mid, hi))

\* digest returning the first 32 bytes of the last hsh for a digest size of 256.
DigestOutput_low(hsh, n, chk, digest_size, calls_) ==
  Strict(hsh, [returned |-> IF digest_size = 256 THEN SubSeq(hsh, 1, 32) ELSE hsh,
               hsh |-> hsh, n |-> n, chk |-> chk, calls |-> calls_])

\* What digest returns of the last hsh: its last 32 bytes for a digest size of
\* 256, else the whole of it; with it the locals at the return.
DigestOutput(hsh, n, chk, digest_size, calls_) ==
  Strict(hsh, [returned |-> IF digest_size = 256 THEN SubSeq(hsh, 33, BLOCKSIZE) ELSE hsh,
               hsh |-> hsh, n |-> n, chk |-> chk, calls |-> calls_])

\* hsh = g(0, hsh, chk)
DigestChecksum(hsh, n, chk, digest_size, calls_) ==
  Strict(hsh, DigestOutput(stribog_g(0, hsh, chk), n, chk, digest_size,
                           Append(calls_, GCall(0, hsh, chk, chk))))

\* hsh = g(0, hsh, pack("<Q", n) + 56 * b"\x00")
DigestLength(hsh, n, chk, digest_size, calls_) ==
  Strict(hsh, DigestChecksum(stribog_g(0, hsh, PackLE64(n) \o Repeat(0, 56)), n, chk,
                             digest_size,
                             Append(calls_, GCall(0, hsh, chk, PackLE64(n) \o Repeat(0, 56)))))

\* digest after its loop with n += 512 for the padded block as for a complete
\* one.
DigestPadded_whole_block(data0, digest_size, st) ==
  LET n == st[3]
      data1 == data0 \o << 1 >>
      padlen == BLOCKSIZE - (Len(data1) % BLOCKSIZE)
      data == IF padlen # BLOCKSIZE THEN data1 \o Repeat(0, padlen) ELSE data1
      last == SubSeq(data, Len(data) - BLOCKSIZE + 1, Len(data))
  IN  Strict(st, DigestLength(stribog_g(n, st[1], last), n + 512,
                              add512bit(st[2], last), digest_size,
                              Append(st[4], GCall(n, st[1], st[2], last))))

\* digest after its loop, which left the state st = << hsh, chk, n, calls >>:
\* the padded last block, then the length block, then the checksum block.
DigestPadded(data0, digest_size, st) ==
  LET n == st[3]
      padblock_size == Len(data0) * 8 - n
      data1 == data0 \o << 1 >>
      padlen == BLOCKSIZE - (Len(data1) % BLOCKSIZE)
      data == IF padlen # BLOCKSIZE THEN data1 \o Repeat(0, padlen) ELSE data1
      last == SubSeq(data, Len(data) - BLOCKSIZE + 1, Len(data))
  IN  Strict(st, DigestLength(stribog_g(n, st[1], last), n + padblock_size,
                              add512bit(st[2], last), digest_size,
                              Append(st[4], GCall(n, st[1], st[2], last))))

\* digest() run from the locals start, with its locals at the return.
Stribog_run(data0, digest_size, start) ==
  DigestPadded(data0, digest_size, DigestBlocks(data0, start, 0, Len(data0) \div BLOCKSIZE))

\* Stribog.digest starting from the accumulator of the other digest size.
Stribog_digest_other_iv(data0, digest_size) ==
  Stribog_run(data0, digest_size, DigestStart_other_iv(digest_size)).returned

\* Stribog(data, digest_size).digest()
Stribog_digest(data0, digest_size) ==
  Stribog_run(data0, digest_size, DigestStart(digest_size)).returned


----------------------------------------------------------------------------
(* Python strings and bytes.  A str is the sequence of its code points, a  *)
(* bytes object the sequence of its bytes.                                 *)

\* One code point as UTF-8 (str.encode("utf-8")); a surrogate cannot be
\* encoded, which raises UnicodeEncodeError.
IsSurrogate(cp) == 55296 <= cp /\ cp <= 57343

EncodeChar(cp) ==
  IF cp < 128 THEN << cp >>
  ELSE IF cp < 2048 THEN << 192 + (cp \div 64), 128 + (cp % 64) >>
  ELSE IF cp < 65536
       THEN << 224 + (cp \div 4096), 128 + ((cp \div 64) % 64), 128 + (cp % 64) >>
       ELSE << 240 + (cp \div 262144), 128 + ((cp \div 4096) % 64),
               128 + ((cp \div 64) % 64), 128 + (cp % 64) >>

\* The encodings of the code points lo .. hi of text, in order.
RECURSIVE Utf8From(_, _, _)
Utf8From(text_, lo, hi) ==
  IF lo > hi THEN << >>
  ELSE IF lo = hi THEN EncodeChar(text_[lo])
  ELSE LET mid == (lo + hi) \div 2
       IN  Utf8From(text_, lo, mid) \o Utf8From(text_, mid + 1, hi)

\* text.encode("utf-8"); ASCII text is its own encoding.
utf8_encode(text_) ==
  IF \A i \in 1 .. Len(text_) : text_[i] < 128 THEN text_ ELSE Utf8From(text_, 1, Len(text_))

\* "0123456789abcdef"
HexDigits == << 48, 49, 50, 51, 52, 53, 54, 55, 56, 57, 97, 98, 99, 100, 101, 102 >>

\* binascii.hexlify(data).decode()
hexlify(data) ==
  AsTuple([i \in 1 .. 2 * Len(data) |->
    LET b == data[(i + 1) \div 2]
    IN  HexDigits[(IF i % 2 = 1 THEN b \div 16 ELSE b % 16) + 1]])

\* The value of a hexadecimal digit in either case, -1 for any other character.
HexValue(c) ==
  IF 48 <= c /\ c <= 57 THEN c - 48
  ELSE IF 97 <= c /\ c <= 102 THEN c - 87
  ELSE IF 65 <= c /\ c <= 70 THEN c - 55
  ELSE -1

\* binascii.unhexlify accepts an even number of hexadecimal digits and raises
\* binascii.Error (a ValueError) on anything else.
IsHex(str) ==
  /\ Len(str) % 2 = 0
  /\ \A i \in 1 .. Len(str) : HexValue(str[i]) >= 0

unhexlify(str) ==
  AsTuple([i \in 1 .. Len(str) \div 2 |->
    16 * HexValue(str[2 * i - 1]) + HexValue(str[2 * i])])

\* str.split(sep) for a one-character separator: the fields between the
\* occurrences of sep, in order.
SepPositions(str, sep) == { i \in 1 .. Len(str) : str[i] = sep }

NthSep(str, sep, k) ==
  IF k = 0 THEN 0
  ELSE IF k > Cardinality(SepPositions(str, sep)) THEN Len(str) + 1
  ELSE CHOOSE i \in SepPositions(str, sep) :
         Cardinality({ j \in SepPositions(str, sep) : j < i }) = k - 1

split(str, sep) ==
  AsTuple([k \in 1 .. Cardinality(SepPositions(str, sep)) + 1 |->
    SubSeq(str, NthSep(str, sep, k - 1) + 1, NthSep(str, sep, k) - 1)])

\* str.lower() on ASCII text.
lower(str) ==
  AsTuple([i \in 1 .. Len(str) |-> IF 65 <= str[i] /\ str[i] <= 90 THEN str[i] + 32 ELSE str[i]])

----------------------------------------------------------------------------
(* What a call returns: its value, or the exception it raises.             *)

Return(v) == [raised |-> "", value |-> v]

Raise(e) == [raised |-> e, value |-> << >>]

\* The statement F on what the statement before it returned; what that one
\* raised, when it raised.
Then(r, F(_)) == IF r.raised # "" THEN r ELSE F(r.value)

----------------------------------------------------------------------------
(* bytes.decode("utf-8"), strict and with errors='ignore'.                 *)

IsContinuation(b) == 128 <= b /\ b <= 191

\* One step of the decoder at index i of data: << "char", length, code point >>
\* for a well-formed sequence, << "error", length >> for an ill-formed one (the
\* bytes the error covers) and << "end", length >> for a sequence the end of
\* the data cuts short (the error covers all that is left).
DecodeAt(data, i) ==
  LET ch == data[i]
      left == Len(data) - i + 1
      ch2 == data[i + 1]
      ch3 == data[i + 2]
      ch4 == data[i + 3]
  IN  IF ch < 128 THEN << "char", 1, ch >>
      ELSE IF ch < 224 THEN
        IF ch < 194 THEN << "error", 1 >>
        ELSE IF left < 2 THEN << "end", left >>
        ELSE IF ~IsContinuation(ch2) THEN << "error", 1 >>
        ELSE << "char", 2, (ch - 192) * 64 + (ch2 - 128) >>
      ELSE IF ch < 240 THEN
        IF left < 2 THEN << "end", left >>
        ELSE IF \/ ~IsContinuation(ch2)
                \/ (ch = 224 /\ ch2 < 160)
                \/ (ch = 237 /\ ch2 >= 160) THEN << "error", 1 >>
        ELSE IF left < 3 THEN << "end", left >>
        ELSE IF ~IsContinuation(ch3) THEN << "error", 2 >>
        ELSE << "char", 3, (ch - 224) * 4096 + (ch2 - 128) * 64 + (ch3 - 128) >>
      ELSE IF ch < 245 THEN
        IF left < 2 THEN << "end", left >>
        ELSE IF \/ ~IsContinuation(ch2)
                \/ (ch = 240 /\ ch2 < 144)
                \/ (ch = 244 /\ ch2 >= 144) THEN << "error", 1 >>
        ELSE IF left < 3 THEN << "end", left >>
        ELSE IF ~IsContinuation(ch3) THEN << "error", 2 >>
        ELSE IF left < 4 THEN << "end", left >>
        ELSE IF ~IsContinuation(ch4) THEN << "error", 3 >>
        ELSE << "char", 4, (ch - 240) * 262144 + (ch2 - 128) * 4096
                            + (ch3 - 128) * 64 + (ch4 - 128) >>
      ELSE << "error", 1 >>

\* The decoder on << index, code points so far, no ill-formed sequence met >>:
\* one step at the index, nothing at the end of the data.
DecodeStep(data, st) ==
  IF st[1] > Len(data) THEN st
  ELSE LET step == DecodeAt(data, st[1])
       IN  << st[1] + step[2],
              IF step[1] = "char" THEN Append(st[2], step[3]) ELSE st[2],
              st[3] /\ step[1] = "char" >>

\* n steps of the decoder.
RECURSIVE DecodeSteps(_, _, _)
DecodeSteps(data, st, n) ==
  IF n = 0 THEN st
  ELSE IF n = 1 THEN DecodeStep(data, st)
  ELSE LET half == DecodeSteps(data, st, n \div 2)
       IN  Strict(half, DecodeSteps(data, half, n - (n \div 2)))

\* The decoder run over all of data (a step takes at least one byte).
DecodeAll(data) == DecodeSteps(data, << 1, << >>, TRUE >>, Len(data))

IsAscii(data) == \A i \in 1 .. Len(data) : data[i] < 128

IsValidUtf8(data) == IsAscii(data) \/ DecodeAll(data)[3]

\* data.decode("utf-8"): the text, or UnicodeDecodeError.
utf8_decode(data) ==
  IF IsAscii(data) THEN Return(data)
  ELSE LET decoded == DecodeAll(data)
       IN  IF decoded[3] THEN Return(decoded[2]) ELSE Raise("UnicodeDecodeError")

\* One step of the decoder with errors='replace': U+FFFD for an ill-formed
\* sequence.
DecodeStepReplace(data, st) ==
  IF st[1] > Len(data) THEN st
  ELSE LET step == DecodeAt(data, st[1])
       IN  << st[1] + step[2],
              Append(st[2], IF step[1] = "char" THEN step[3] ELSE 65533),
              st[3] /\ step[1] = "char" >>

RECURSIVE DecodeStepsReplace(_, _, _)
DecodeStepsReplace(data, st, n) ==
  IF n = 0 THEN st
  ELSE IF n = 1 THEN DecodeStepReplace(data, st)
  ELSE LET half == DecodeStepsReplace(data, st, n \div 2)
       IN  Strict(half, DecodeStepsReplace(data, half, n - (n \div 2)))

\* data.decode("utf-8", errors='replace')
utf8_decode_replace(data) == DecodeStepsReplace(data, << 1, << >>, TRUE >>, Len(data))[2]

\* data.decode("utf-8", errors='ignore'): the ill-formed bytes are skipped.
utf8_decode_ignore(data) == DecodeAll(data)[2]

----------------------------------------------------------------------------
(* base64.b64encode / base64.b64decode                                     *)

\* "A-Za-z0-9+/"
B64Char(v) ==
  IF v < 26 THEN 65 + v
  ELSE IF v < 52 THEN 97 + (v - 26)
  ELSE IF v < 62 THEN 48 + (v - 52)
  ELSE IF v = 62 THEN 43 ELSE 47

B64Value(c) ==
  IF 65 <= c /\ c <= 90 THEN c - 65
  ELSE IF 97 <= c /\ c <= 122 THEN c - 97 + 26
  ELSE IF 48 <= c /\ c <= 57 THEN c - 48 + 52
  ELSE IF c = 43 THEN 62
  ELSE IF c = 47 THEN 63
  ELSE -1

\* "="
B64Pad == 61

ByteAt(data, i) == IF i <= Len(data) THEN data[i] ELSE 0

b64encode(data) ==
  AsTuple([i \in 1 .. 4 * ((Len(data) + 2) \div 3) |->
    LET grp == (i - 1) \div 4
        pos == (i - 1) % 4
        b0 == ByteAt(data, 3 * grp + 1)
        b1 == ByteAt(data, 3 * grp + 2)
        b2 == ByteAt(data, 3 * grp + 3)
    IN  IF pos = 0 THEN B64Char(b0 \div 4)
        ELSE IF pos = 1 THEN B64Char((b0 % 4) * 16 + (b1 \div 16))
        ELSE IF pos = 2 THEN IF 3 * grp + 2 > Len(data) THEN B64Pad
                             ELSE B64Char((b1 % 16) * 4 + (b2 \div 64))
        ELSE IF 3 * grp + 3 > Len(data) THEN B64Pad ELSE B64Char(b2 % 64)])

IsB64Data(c) == B64Value(c) >= 0

\* b64decode(s) with validate=False, as binascii.a2b_base64 reads it: a
\* character outside the alphabet is skipped; the data characters fill groups
\* of four; a "=" ends the input when it completes a group ("=" after three
\* data characters of a group, the second "=" in a row after two) and is
\* skipped elsewhere; data left in an incomplete group at the end is a
\* binascii.Error.  A str argument with a non-ASCII character is a ValueError.
b64decode(str) ==
  LET n == Len(str)
      DataBefore(i) == Cardinality({ j \in 1 .. i - 1 : IsB64Data(str[j]) })
      PadsSince(i) ==
        Cardinality({ j \in 1 .. i : str[j] = B64Pad
                        /\ \A m \in j .. i : ~IsB64Data(str[m]) })
      Stops(i) ==
        /\ str[i] = B64Pad
        /\ \/ DataBefore(i) % 4 = 3
           \/ DataBefore(i) % 4 = 2 /\ PadsSince(i) >= 2
      stop == IF \E i \in 1 .. n : Stops(i)
              THEN CHOOSE i \in 1 .. n : Stops(i) /\ \A j \in 1 .. i - 1 : ~Stops(j)
              ELSE n + 1
      chars == SelectSeq(SubSeq(str, 1, stop - 1), IsB64Data)
      nd == Len(chars)
      val(i) == IF i <= nd THEN B64Value(chars[i]) ELSE 0
  IN  IF \E i \in 1 .. n : str[i] >= 128 THEN Raise("ValueError")
      ELSE IF stop = n + 1 /\ nd % 4 # 0 THEN Raise("binascii.Error")
      ELSE Return(AsTuple([k \in 1 .. (nd * 6) \div 8 |->
             LET grp == (k - 1) \div 3
                 pos == (k - 1) % 3
                 v0 == val(4 * grp + 1)
                 v1 == val(4 * grp + 2)
                 v2 == val(4 * grp + 3)
                 v3 == val(4 * grp + 4)
             IN  IF pos = 0 THEN v0 * 4 + (v1 \div 16)
                 ELSE IF pos = 1 THEN (v1 % 16) * 16 + (v2 \div 4)
                 ELSE (v2 % 4) * 64 + v3]))

----------------------------------------------------------------------------
(* Decimal numerals: str(int) and int(str).                                *)

\* "0" .. "9"
Digit(d) == 48 + d

IsDigit(c) == 48 <= c /\ c <= 57

\* str(n) for a machine-sized n >= 0.
RECURSIVE IntToDec(_)
IntToDec(n) == IF n < 10 THEN << Digit(n) >> ELSE Append(IntToDec(n \div 10), Digit(n % 10))

\* The bytes lo .. hi of x (most significant first) divided by 10 with the
\* remainder rem carried in: << quotient bytes, remainder >>.
RECURSIVE DivMod10(_, _, _, _)
DivMod10(x, lo, hi, rem) ==
  IF lo = hi
  THEN LET cur == rem * 256 + x[lo] IN << << cur \div 10 >>, cur % 10 >>
  ELSE LET mid == (lo + hi) \div 2
           high == DivMod10(x, lo, mid, rem)
           low == DivMod10(x, mid + 1, hi, high[2])
       IN  Strict(high, << high[1] \o low[1], low[2] >>)

IsZero(x) == \A i \in 1 .. Len(x) : x[i] = 0

\* << x, acc >> with the last digit of x moved in front of the digits acc;
\* nothing once x is 0.
DigitStep(st) ==
  IF IsZero(st[1]) THEN st
  ELSE LET qr == DivMod10(st[1], 1, Len(st[1]), 0)
       IN  << qr[1], << Digit(qr[2]) >> \o st[2] >>

RECURSIVE BlockDigits(_, _)
BlockDigits(st, n) ==
  IF n = 1 THEN DigitStep(st)
  ELSE LET half == BlockDigits(st, n \div 2)
       IN  Strict(half, BlockDigits(half, n - (n \div 2)))

\* str(x) of the int x a block stands for (a byte has at most 3 digits).
BlockToDec(x) ==
  IF IsZero(x) THEN << Digit(0) >> ELSE BlockDigits(<< x, << >> >>, 3 * Len(x))[2]

\* x * 10 + carry on the bytes lo .. hi of x, least significant (hi) first:
\* << bytes, carry out >>.
RECURSIVE MulAdd10(_, _, _, _)
MulAdd10(x, lo, hi, carry) ==
  IF lo = hi
  THEN LET cur == x[lo] * 10 + carry IN << << cur % 256 >>, cur \div 256 >>
  ELSE LET mid == (lo + hi) \div 2
           low == MulAdd10(x, mid + 1, hi, carry)
           high == MulAdd10(x, lo, mid, low[2])
       IN  Strict(low, << high[1] \o low[1], high[2] >>)

\* << value, whether it left 128 bits >> after the digits lo .. hi of str.
RECURSIVE DecValue(_, _, _, _)
DecValue(str, st, lo, hi) ==
  IF lo = hi
  THEN LET nxt == MulAdd10(st[1], 1, Len(st[1]), str[lo] - 48)
       IN  << nxt[1], st[2] \/ nxt[2] # 0 >>
  ELSE LET mid == (lo + hi) \div 2
           half == DecValue(str, st, lo, mid)
       IN  Strict(half, DecValue(str, half, mid + 1, hi))

\* int(s) for a numeral as str() writes it (int() takes a sign, blanks and
\* underscores too; no envelope written by grasshopper_encrypt holds any).
\* A value of 2^128 or more is no block: int.to_bytes(16) raises
\* OverflowError on it.
DecToBlock(str) ==
  IF Len(str) = 0 \/ \E i \in 1 .. Len(str) : ~IsDigit(str[i]) THEN Raise("ValueError")
  ELSE LET v == DecValue(str, << Repeat(0, 16), FALSE >>, 1, Len(str))
       IN  IF v[2] THEN Raise("OverflowError") ELSE Return(v[1])

RECURSIVE DecToIntFrom(_, _, _)
DecToIntFrom(str, i, acc) ==
  IF i > Len(str) THEN acc
  ELSE LET acc2 == acc * 10 + (str[i] - 48)
       IN  Strict(acc2, DecToIntFrom(str, i + 1, acc2))

\* int(s) for a numeral of a machine-sized value.
DecToInt(str) == DecToIntFrom(str, 1, 0)

----------------------------------------------------------------------------
(* json.dumps / json.loads of a list of strings or of integers.            *)

\* '"' , '[' , ']' , ',' , ' ' , '\'
Quote == 34
LBracket == 91
RBracket == 93
Comma == 44
Space == 32
Backslash == 92

\* The items lo .. hi joined by ", ".
RECURSIVE JoinItems(_, _, _)
JoinItems(items, lo, hi) ==
  IF lo > hi THEN << >>
  ELSE IF lo = hi THEN items[lo]
  ELSE LET mid == (lo + hi) \div 2
       IN  JoinItems(items, lo, mid) \o << Comma, Space >> \o JoinItems(items, mid + 1, hi)

\* json.dumps of a list of str holding nothing JSON escapes.
json_dumps_strs(list) ==
  << LBracket >>
    \o JoinItems(AsTuple([i \in 1 .. Len(list) |-> << Quote >> \o list[i] \o << Quote >>]),
                 1, Len(list))
    \o << RBracket >>

\* json.dumps of a list of int literals (each given as its numeral).
json_dumps_ints(numerals) ==
  << LBracket >> \o JoinItems(numerals, 1, Len(numerals)) \o << RBracket >>

\* json.loads of a text in the layout json.dumps writes for a list of
\* strings: the strings, or JSONDecodeError (a ValueError).
json_loads_strs(str) ==
  LET n == Len(str)
      nq == Cardinality(SepPositions(str, Quote))
      q(k) == NthSep(str, Quote, k)
  IN  IF n = 2 /\ str = << LBracket, RBracket >> THEN Return(<< >>)
      ELSE IF /\ n >= 4
              /\ str[1] = LBracket
              /\ str[n] = RBracket
              /\ nq >= 2 /\ nq % 2 = 0
              /\ q(1) = 2
              /\ q(nq) = n - 1
              /\ \A k \in 1 .. (nq \div 2) - 1 :
                   /\ q(2 * k + 1) = q(2 * k) + 3
                   /\ str[q(2 * k) + 1] = Comma
                   /\ str[q(2 * k) + 2] = Space
              /\ \A i \in 1 .. n : str[i] # Backslash /\ str[i] >= 32
           THEN Return(AsTuple([k \in 1 .. nq \div 2 |->
                  SubSeq(str, q(2 * k - 1) + 1, q(2 * k) - 1)]))
           ELSE Raise("JSONDecodeError")

\* json.loads of a text in the layout json.dumps writes for a list of
\* non-negative integers: their numerals, or JSONDecodeError.
json_loads_ints(str) ==
  LET n == Len(str)
      inner == SubSeq(str, 2, n - 1)
      fields == split(inner, Comma)
      IsNumeral(f) == Len(f) >= 1 /\ (\A i \in 1 .. Len(f) : IsDigit(f[i]))
                        /\ (Len(f) = 1 \/ f[1] # Digit(0))
  IN  IF n = 2 /\ str = << LBracket, RBracket >> THEN Return(<< >>)
      ELSE IF /\ n >= 3
              /\ str[1] = LBracket
              /\ str[n] = RBracket
              /\ IsNumeral(fields[1])
              /\ \A k \in 2 .. Len(fields) :
                   /\ Len(fields[k]) >= 2
                   /\ fields[k][1] = Space
                   /\ IsNumeral(Tail(fields[k]))
           THEN Return(AsTuple([k \in 1 .. Len(fields) |->
                  IF k = 1 THEN fields[1] ELSE Tail(fields[k])]))
           ELSE Raise("JSONDecodeError")


----------------------------------------------------------------------------
(* Text framing: core/utils/kuznechik/__init__.py                          *)

\* _grasshopper_key = DEFAULT_KEY
_grasshopper_key == DEFAULT_KEY

\* kuznechik_key_schedule is a function of the key alone; the schedule of the
\* one key the framing uses is computed once here rather than once per block.
DefaultSchedule == kuznechik_key_schedule(DEFAULT_KEY)

ScheduleOf(key_) ==
  IF key_ = DEFAULT_KEY THEN DefaultSchedule ELSE kuznechik_key_schedule(key_)

_kuznechik_encrypt_int(block_int_, key_) == EncryptWith(block_int_, ScheduleOf(key_))

_kuznechik_decrypt_int(encrypted_int_, key_) == DecryptWith(encrypted_int_, Reverse(ScheduleOf(key_)))

\* text_bytes[i : i + 16], filled up with zero bytes to 16 bytes.
PaddedBlock(text_bytes, i) ==
  AsTuple([k \in 1 .. BlockLen |-> ByteAt(text_bytes, i + k)])

\* The loop of grasshopper_encrypt: str(encrypted_block) of every block
\* (no pass of the loop reads what another wrote).
EncryptBlocks(text_bytes) ==
  AsTuple([k \in 1 .. (Len(text_bytes) + BlockLen - 1) \div BlockLen |->
    BlockToDec(_kuznechik_encrypt_int(PaddedBlock(text_bytes, (k - 1) * BlockLen),
                                      _grasshopper_key))])

\* grasshopper_encrypt.  The log line after the loop divides the elapsed
\* time by num_blocks.
grasshopper_encrypt(text_) ==
  IF \E i \in 1 .. Len(text_) : IsSurrogate(text_[i]) THEN Raise("UnicodeEncodeError")
  ELSE LET text_bytes == utf8_encode(text_)
           num_blocks == (Len(text_bytes) + BlockLen - 1) \div BlockLen
       IN  IF num_blocks = 0 THEN Raise("ZeroDivisionError")
           ELSE Return(b64encode(utf8_encode(json_dumps_strs(EncryptBlocks(text_bytes)))))

\* b''.join(decrypted_blocks)
JoinBlocks(blocks) ==
  AsTuple([i \in 1 .. Len(blocks) * BlockLen |->
    blocks[((i - 1) \div BlockLen) + 1][((i - 1) % BlockLen) + 1]])

\* The loop of grasshopper_decrypt over the numerals of the envelope: the
\* bytes of the decrypted blocks, or the exception int() or to_bytes raises.
DecryptBlocks(numerals) ==
  LET n == Len(numerals)
      encrypted == AsTuple([k \in 1 .. n |-> DecToBlock(numerals[k])])
      bad == { k \in 1 .. n : encrypted[k].raised # "" }
  IN  IF bad # {} THEN encrypted[CHOOSE k \in bad : \A j \in bad : k <= j]
      ELSE Return(JoinBlocks(AsTuple([k \in 1 .. n |->
             _kuznechik_decrypt_int(encrypted[k].value, _grasshopper_key)])))

\* bytes.rstrip(b'\x00')
rstrip_nul(data) ==
  LET keep == { i \in 1 .. Len(data) : data[i] # 0 }
      last == IF keep = {} THEN 0 ELSE CHOOSE i \in keep : \A j \in keep : j <= i
  IN  SubSeq(data, 1, last)

\* The end of grasshopper_decrypt, on the bytes the loop joined: the strict
\* decoding of the stripped bytes, else the decoding that ignores errors.
DecodeJoined(joined) ==
  LET result == rstrip_nul(joined)
      strict == utf8_decode(result)
  IN  IF strict.raised = "" THEN strict ELSE Return(utf8_decode_ignore(result))

\* grasshopper_decrypt.  The log line after the loop divides the elapsed
\* time by num_blocks.
grasshopper_decrypt(cipher_b64_) ==
  Then(Then(Then(b64decode(cipher_b64_), utf8_decode), json_loads_strs),
       LAMBDA encrypted_blocks_str :
         Then(DecryptBlocks(encrypted_blocks_str),
              LAMBDA joined :
                IF Len(encrypted_blocks_str) = 0 THEN Raise("ZeroDivisionError")
                ELSE DecodeJoined(joined)))


----------------------------------------------------------------------------
(* Password hashing service: core/utils/password.py                        *)

\* "streebog512"
TagStreebog512 == << 115, 116, 114, 101, 101, 98, 111, 103, 53, 49, 50 >>

\* "$"
Dollar == 36

SaltLen == 16

_streebog512(data) == Stribog_digest(data, 512)

\* Whether str.encode("utf-8") raises UnicodeEncodeError.
Unencodable(str) == \E i \in 1 .. Len(str) : IsSurrogate(str[i])

\* A record with an iteration count of 1 between the tag and the salt.
get_password_hash_iterations(pwd, salt_) ==
  IF Unencodable(pwd) THEN Raise("UnicodeEncodeError")
  ELSE Return(TagStreebog512 \o << Dollar, Digit(1), Dollar >> \o hexlify(salt_)
                \o << Dollar >> \o hexlify(_streebog512(salt_ \o utf8_encode(pwd))))

\* A record whose digest went through the hash a second time.
get_password_hash_twice(pwd, salt_) ==
  IF Unencodable(pwd) THEN Raise("UnicodeEncodeError")
  ELSE Return(TagStreebog512 \o << Dollar >> \o hexlify(salt_) \o << Dollar >>
                \o hexlify(_streebog512(_streebog512(salt_ \o utf8_encode(pwd)))))

\* get_password_hash with the 16 bytes os.urandom(16) returned.
get_password_hash(password_, salt_) ==
  IF Unencodable(password_) THEN Raise("UnicodeEncodeError")
  ELSE Return(TagStreebog512 \o << Dollar >> \o hexlify(salt_) \o << Dollar >>
                \o hexlify(_streebog512(salt_ \o utf8_encode(password_))))

\* The try block of verify_password: "raise" where a statement of it raises
\* (the unpacking of other than three parts, unhexlify of a non-hex field,
\* the encoding of a surrogate), else the two digests to compare, or FALSE at
\* the early return.
verify_password_try(plain_password_, hashed_password_) ==
  LET parts == split(hashed_password_, Dollar)
  IN  IF Len(parts) # 3 THEN "raise"
      ELSE LET alg == parts[1]
               salt_hex == parts[2]
               digest_hex == parts[3]
           IN  IF lower(alg) # TagStreebog512 THEN "False"
               ELSE IF ~IsHex(salt_hex) \/ ~IsHex(digest_hex) THEN "raise"
               ELSE IF Unencodable(plain_password_) THEN "raise"
               ELSE "compare"

\* verify_password hashing the password in front of the salt.
verify_password_swapped(plain, hashed_) ==
  IF verify_password_try(plain, hashed_) # "compare" THEN "False"
  ELSE LET parts == split(hashed_, Dollar)
       IN  IF _streebog512(utf8_encode(plain) \o unhexlify(parts[2])) = unhexlify(parts[3])
           THEN "True" ELSE "False"

\* verify_password accepting every record it can parse, the comparison of the
\* digests left out.
verify_password_no_compare(plain, hashed_) ==
  IF verify_password_try(plain, hashed_) # "compare" THEN "False"
  ELSE "True"

\* verify_password without its except clause.
verify_password_no_except(plain, hashed_) ==
  LET outcome == verify_password_try(plain, hashed_)
  IN  IF outcome # "compare" THEN outcome
      ELSE LET parts == split(hashed_, Dollar)
           IN  IF _streebog512(unhexlify(parts[2]) \o utf8_encode(plain)) = unhexlify(parts[3])
               THEN "True" ELSE "False"

\* verify_password: except Exception turns every raise into False; the
\* comparison hmac.compare_digest(computed, expected_digest) follows the try.
verify_password(plain_password_, hashed_password_) ==
  LET outcome == verify_password_try(plain_password_, hashed_password_)
  IN  IF outcome = "raise" THEN "False"
      ELSE IF outcome = "False" THEN "False"
      ELSE LET parts == split(hashed_password_, Dollar)
               salt_ == unhexlify(parts[2])
               expected_digest == unhexlify(parts[3])
           IN  IF _streebog512(salt_ \o utf8_encode(plain_password_)) = expected_digest
               THEN "True" ELSE "False"


----------------------------------------------------------------------------
(* Textbook RSA: core/utils/rsa_old/rsa.py, core/utils/rsa/__init__.py     *)

\* pow(base, exp, mod), for mod * mod within the machine integers.
RECURSIVE pow(_, _, _)
pow(base, exp, mod) ==
  IF exp = 0 THEN 1 % mod
  ELSE LET half == pow(base, exp \div 2, mod)
           sq == (half * half) % mod
       IN  IF exp % 2 = 1 THEN (sq * (base % mod)) % mod ELSE sq

\* chr() takes 0 .. 0x10ffff.
MaxCodePoint == 1114111

IsPrime(p) == p >= 2 /\ \A k \in 2 .. p - 1 : p % k # 0

RECURSIVE GCD(_, _)
GCD(a, b) == IF b = 0 THEN a ELSE GCD(b, a % b)

LCM(a, b) == (a * b) \div GCD(a, b)

\* The fixed public exponent of key generation.
PublicExponent == 65537

\* generate_rsa on the primes p and q it drew: n = p * q, the fixed public
\* exponent, d = e^-1 mod lcm(p - 1, q - 1).
generate_rsa(p, q) ==
  LET n == p * q
      lambda == LCM(p - 1, q - 1)
      e == PublicExponent
      d == CHOOSE x \in 1 .. lambda : ((e % lambda) * x) % lambda = 1
  IN  [public_key |-> << e, n >>, private_key |-> << d, n >>]

\* RSA.set_keys: the fields e, n, d of the instance.
set_keys(public_key, private_key) ==
  [e |-> public_key[1], n |-> public_key[2], d |-> private_key[1]]

\* RSA.gen_keys on what generate_rsa returned.
gen_keys(rsa) == set_keys(rsa.public_key, rsa.private_key)

\* RSA.encrypt: pow(ord(m), self.e, self.n) of every character; the log line
\* after the loop divides the elapsed time by len(message).
RSA_encrypt(self, message_) ==
  IF Len(message_) = 0 THEN Raise("ZeroDivisionError")
  ELSE Return(AsTuple([i \in 1 .. Len(message_) |-> pow(message_[i], self.e, self.n)]))

\* RSA.decrypt: chr(pow(c, self.d, self.n)) of every number; the log line
\* after the loop divides the elapsed time by len(cypher).
RSA_decrypt(self, cypher_) ==
  LET result == AsTuple([i \in 1 .. Len(cypher_) |-> pow(cypher_[i], self.d, self.n)])
  IN  IF \E i \in 1 .. Len(cypher_) : result[i] > MaxCodePoint THEN Raise("ValueError")
      ELSE IF Len(cypher_) = 0 THEN Raise("ZeroDivisionError")
      ELSE Return(result)

\* rsa_encrypt with the module's instance: the list as JSON, then base64.
rsa_encrypt(_rsa_instance, text_) ==
  LET encrypted_list == RSA_encrypt(_rsa_instance, text_)
      numerals == AsTuple([i \in 1 .. Len(encrypted_list.value) |->
                    IntToDec(encrypted_list.value[i])])
      json_str == json_dumps_ints(numerals)
  IN  IF encrypted_list.raised # "" THEN encrypted_list
      ELSE Return(b64encode(utf8_encode(json_str)))

\* rsa_decrypt with the module's instance, on an envelope rsa_encrypt wrote.
rsa_decrypt(_rsa_instance, cipher_b64_) ==
  Then(Then(Then(b64decode(cipher_b64_), utf8_decode), json_loads_ints),
       LAMBDA numerals :
         RSA_decrypt(_rsa_instance,
                     AsTuple([i \in 1 .. Len(numerals) |-> DecToInt(numerals[i])])))

----------------------------------------------------------------------------
(* The state: one call sequence per component.                             *)

VARIABLES
  key, block_int, encrypted_int, decrypted_int, encrypted_by, decrypted_by,
  text, cipher_b64, decrypted_text,
  password, salt, hashed, hashed_password, tampered, plain_password, verified,
  rsa_instance, message, cypher, decrypted_message, rsa_cipher_b64, rsa_text,
  operand, applied, image,
  stribog, digest, digest_locals,
  stored_bytes,
  calls,
  users, auth_data, auth_user,
  temp_codes, last_temp_code_id, utcnow, requests,
  texts, text_requests

blockVars == << key, block_int, encrypted_int, decrypted_int, encrypted_by, decrypted_by >>

framingVars == << text, cipher_b64, decrypted_text >>

passwordVars ==
  << password, salt, hashed, hashed_password, tampered, plain_password, verified >>

rsaVars ==
  << rsa_instance, message, cypher, decrypted_message, rsa_cipher_b64, rsa_text >>

transformVars == << operand, applied, image >>

stribogVars == << stribog, digest, digest_locals >>

envelopeVars == << stored_bytes >>

callVars == << calls >>

authVars == << users, auth_data, auth_user >>

codesVars == << temp_codes, last_temp_code_id, utcnow, requests >>

textVars == << texts, text_requests >>

vars == << blockVars, framingVars, passwordVars, rsaVars, transformVars, stribogVars, envelopeVars, callVars, authVars, codesVars, textVars >>

\* The variables of the other components, which a call on one leaves alone.
notBlockVars ==
  << framingVars, passwordVars, rsaVars, transformVars, stribogVars, envelopeVars, callVars, authVars, codesVars, textVars >>

notFramingVars ==
  << blockVars, passwordVars, rsaVars, transformVars, stribogVars, envelopeVars, callVars, authVars, codesVars, textVars >>

notPasswordVars ==
  << blockVars, framingVars, rsaVars, transformVars, stribogVars, envelopeVars, callVars, authVars, codesVars, textVars >>

notRsaVars ==
  << blockVars, framingVars, passwordVars, transformVars, stribogVars, envelopeVars, callVars, authVars, codesVars, textVars >>

notTransformVars ==
  << blockVars, framingVars, passwordVars, rsaVars, stribogVars, envelopeVars, callVars, authVars, codesVars, textVars >>

notStribogVars ==
  << blockVars, framingVars, passwordVars, rsaVars, transformVars, envelopeVars, callVars, authVars, codesVars, textVars >>

notEnvelopeVars ==
  << blockVars, framingVars, passwordVars, rsaVars, transformVars, stribogVars, callVars, authVars, codesVars, textVars >>

notCallVars ==
  << blockVars, framingVars, passwordVars, rsaVars, transformVars, stribogVars, envelopeVars, authVars, codesVars, textVars >>

notAuthVars ==
  << blockVars, framingVars, passwordVars, rsaVars, transformVars, stribogVars, envelopeVars, callVars, codesVars, textVars >>

notCodesVars ==
  << blockVars, framingVars, passwordVars, rsaVars, transformVars, stribogVars, envelopeVars, callVars, authVars, textVars >>

notTextVars ==
  << blockVars, framingVars, passwordVars, rsaVars, transformVars, stribogVars, envelopeVars, callVars, authVars, codesVars >>

\* A call that has not been made.
NotCalled == [raised |-> "not called", value |-> << >>]

Returned(r) == r.raised = ""

Raised(r) == r.raised \notin { "", "not called" }

\* The components at rest: what each holds before any call on it.
BlockIdle ==
  /\ key = << >> /\ block_int = << >>
  /\ encrypted_int = << >> /\ decrypted_int = << >>
  /\ encrypted_by = "" /\ decrypted_by = ""

FramingIdle == text = << >> /\ cipher_b64 = NotCalled /\ decrypted_text = NotCalled

PasswordIdle ==
  /\ password = << >> /\ salt = << >> /\ hashed = NotCalled /\ hashed_password = << >>
  /\ tampered = "" /\ plain_password = << >> /\ verified = ""

RsaIdle ==
  /\ rsa_instance = set_keys(<< 0, 0 >>, << 0, 0 >>) /\ message = << >>
  /\ cypher = NotCalled /\ decrypted_message = NotCalled
  /\ rsa_cipher_b64 = NotCalled /\ rsa_text = NotCalled

TransformIdle == operand = << >> /\ applied = << >> /\ image = << >>

\* No Stribog object constructed.
NotConstructed == [data |-> << >>, digest_size |-> 0, updates |-> 0]

StribogIdle == stribog = NotConstructed /\ digest = NotCalled /\ digest_locals = NotCalled

EnvelopeIdle == stored_bytes = << >>

CallIdle == calls = << >>

AuthIdle == users = << >> /\ auth_data = << >> /\ auth_user = NotCalled

CodesIdle == temp_codes = { } /\ last_temp_code_id = 0 /\ utcnow = 0 /\ requests = << >>

TextIdle == texts = << >> /\ text_requests = << >>

\* n bytes of the pattern s: all 0x00, all 0xff, then mixed bytes.
BytePattern(s, n) ==
  AsTuple([i \in 1 .. n |->
    IF s = 0 THEN 0
    ELSE IF s = 1 THEN 255
    ELSE (s * 89 + i * (2 * s + 29) + i * i * s) % 256])

----------------------------------------------------------------------------
(* The block cipher on sample keys and blocks.                             *)

NumKeys == 4

NumBlocks == 4

\* DEFAULT_KEY and further 256-bit keys.
Keys == { IF s = 0 THEN DEFAULT_KEY ELSE BytePattern(s - 1, KeyLen) : s \in 0 .. NumKeys - 1 }

\* msg of test_grasshopper.py: 0x1122334455667700ffeeddccbbaa9988.
TestMessage ==
  << 17, 34, 51, 68, 85, 102, 119, 0, 255, 238, 221, 204, 187, 170, 153, 136 >>

\* The test's message and further 128-bit blocks.
Blocks == { IF s = 0 THEN TestMessage ELSE BytePattern(s - 1, BlockLen) : s \in 0 .. NumBlocks - 1 }

InitBlock ==
  /\ key \in Keys
  /\ block_int \in Blocks
  /\ encrypted_int = << >> /\ decrypted_int = << >>
  /\ encrypted_by = "" /\ decrypted_by = ""
  /\ FramingIdle /\ PasswordIdle /\ RsaIdle /\ TransformIdle /\ StribogIdle /\ EnvelopeIdle /\ CallIdle /\ AuthIdle /\ CodesIdle /\ TextIdle

KuznechikEncrypt ==
  /\ encrypted_by = ""
  /\ encrypted_int' = kuznechik_encrypt(block_int, key)
  /\ encrypted_by' = "kuznechik_encrypt"
  /\ UNCHANGED << key, block_int, decrypted_int, decrypted_by, notBlockVars >>

KuznechikEncryptInt ==
  /\ encrypted_by = ""
  /\ encrypted_int' = _kuznechik_encrypt_int(block_int, key)
  /\ encrypted_by' = "_kuznechik_encrypt_int"
  /\ UNCHANGED << key, block_int, decrypted_int, decrypted_by, notBlockVars >>

KuznechikDecrypt ==
  /\ encrypted_by # "" /\ decrypted_by = ""
  /\ decrypted_int' = kuznechik_decrypt(encrypted_int, key)
  /\ decrypted_by' = "kuznechik_decrypt"
  /\ UNCHANGED << key, block_int, encrypted_int, encrypted_by, notBlockVars >>

KuznechikDecryptInt ==
  /\ encrypted_by # "" /\ decrypted_by = ""
  /\ decrypted_int' = _kuznechik_decrypt_int(encrypted_int, key)
  /\ decrypted_by' = "_kuznechik_decrypt_int"
  /\ UNCHANGED << key, block_int, encrypted_int, encrypted_by, notBlockVars >>

NextBlock ==
  \/ KuznechikEncrypt
  \/ KuznechikEncryptInt
  \/ KuznechikDecrypt
  \/ KuznechikDecryptInt

SpecBlock == InitBlock /\ [][NextBlock]_vars

----------------------------------------------------------------------------
(* The text framing on sample texts.                                       *)

MaxTail == 2

\* NUL, "a", e-acute (2 bytes), the euro sign (3 bytes), a lone surrogate.
TextAlphabet == { 0, 97, 233, 8364, 55296 }

\* The number of "a" in front of the tail: with the tails, byte lengths from
\* 0 to past two blocks, the multiples of 16 among them.
PrefixLens == { 0, 14, 15, 30 }

Tails == UNION { [1 .. n -> TextAlphabet] : n \in 0 .. MaxTail }

Texts == { Repeat(97, p) \o AsTuple(t) : p \in PrefixLens, t \in Tails }

InitFraming ==
  /\ text \in Texts
  /\ cipher_b64 = NotCalled /\ decrypted_text = NotCalled
  /\ BlockIdle /\ PasswordIdle /\ RsaIdle /\ TransformIdle /\ StribogIdle /\ EnvelopeIdle /\ CallIdle /\ AuthIdle /\ CodesIdle /\ TextIdle

GrasshopperEncrypt ==
  /\ cipher_b64 = NotCalled
  /\ cipher_b64' = grasshopper_encrypt(text)
  /\ UNCHANGED << text, decrypted_text, notFramingVars >>

GrasshopperDecrypt ==
  /\ Returned(cipher_b64) /\ decrypted_text = NotCalled
  /\ decrypted_text' = grasshopper_decrypt(cipher_b64.value)
  /\ UNCHANGED << text, cipher_b64, notFramingVars >>

NextFraming ==
  \/ GrasshopperEncrypt
  \/ GrasshopperDecrypt

SpecFraming == InitFraming /\ [][NextFraming]_vars

----------------------------------------------------------------------------
(* The password hashing service on sample passwords, salts and records.    *)

NumPasswords == 5

NumSalts == 2

\* "secret", "secreT", "", a Cyrillic word, a lone surrogate, "a$b".
PasswordList ==
  << << 115, 101, 99, 114, 101, 116 >>,
     << 115, 101, 99, 114, 101, 84 >>,
     << >>,
     << 1087, 1072, 1088, 1086, 1083, 1100 >>,
     << 55296 >>,
     << 97, 36, 98 >> >>

Passwords ==
  { IF i <= Len(PasswordList) THEN PasswordList[i] ELSE Repeat(97, i) : i \in 1 .. NumPasswords }

\* What os.urandom(16) may return.
Salts == { BytePattern(s, SaltLen) : s \in 0 .. NumSalts - 1 }

\* What the record handed to verify_password may be instead of the record
\* get_password_hash returned.
TamperKinds ==
  { "drop_digest", "iterations_field", "empty", "unknown_tag", "upper_tag",
    "salt_not_hex", "digest_not_hex", "digest_odd", "other_digest" }

upper(str) ==
  AsTuple([i \in 1 .. Len(str) |-> IF 97 <= str[i] /\ str[i] <= 122 THEN str[i] - 32 ELSE str[i]])

Tamper(kind, record) ==
  LET parts == split(record, Dollar)
      alg == parts[1]
      salt_hex == parts[2]
      digest_hex == parts[3]
      Join(a, b, c) == a \o << Dollar >> \o b \o << Dollar >> \o c
  IN  CASE kind = "drop_digest" -> alg \o << Dollar >> \o salt_hex
        [] kind = "iterations_field" ->
             alg \o << Dollar, Digit(1), Dollar >> \o salt_hex \o << Dollar >> \o digest_hex
        [] kind = "empty" -> << >>
        [] kind = "unknown_tag" -> Join(<< 109, 100, 53 >>, salt_hex, digest_hex)
        [] kind = "upper_tag" -> Join(upper(alg), salt_hex, digest_hex)
        [] kind = "salt_not_hex" -> Join(alg, << 103 >> \o Tail(salt_hex), digest_hex)
        [] kind = "digest_not_hex" -> Join(alg, salt_hex, Tail(digest_hex) \o << 122 >>)
        [] kind = "digest_odd" -> Join(alg, salt_hex, Tail(digest_hex))
        [] kind = "other_digest" ->
             Join(alg, salt_hex,
                  << IF digest_hex[1] = Digit(0) THEN Digit(1) ELSE Digit(0) >> \o Tail(digest_hex))

InitPassword ==
  /\ password \in Passwords
  /\ salt = << >> /\ hashed = NotCalled /\ hashed_password = << >>
  /\ tampered = "" /\ plain_password = << >> /\ verified = ""
  /\ BlockIdle /\ FramingIdle /\ RsaIdle /\ TransformIdle /\ StribogIdle /\ EnvelopeIdle /\ CallIdle /\ AuthIdle /\ CodesIdle /\ TextIdle

GetPasswordHash ==
  /\ hashed = NotCalled
  /\ \E drawn \in Salts :
       /\ salt' = drawn
       /\ hashed' = get_password_hash(password, drawn)
  /\ hashed_password' = hashed'.value
  /\ UNCHANGED << password, tampered, plain_password, verified, notPasswordVars >>

TamperRecord ==
  /\ Returned(hashed) /\ tampered = "" /\ verified = ""
  /\ \E kind \in TamperKinds :
       /\ tampered' = kind
       /\ hashed_password' = Tamper(kind, hashed_password)
  /\ UNCHANGED << password, salt, hashed, plain_password, verified, notPasswordVars >>

VerifyPassword ==
  /\ Returned(hashed) /\ verified = ""
  /\ \E attempt \in Passwords :
       /\ plain_password' = attempt
       /\ verified' = verify_password(attempt, hashed_password)
  /\ UNCHANGED << password, salt, hashed, hashed_password, tampered, notPasswordVars >>

NextPassword ==
  \/ GetPasswordHash
  \/ TamperRecord
  \/ VerifyPassword

SpecPassword == InitPassword /\ [][NextPassword]_vars

----------------------------------------------------------------------------
(* The RSA cipher on sample key pairs and messages.                        *)

MaxPrime == 19

MaxMessage == 2

\* The primes generate_rsa may draw: the product of any two exceeds 127.
Primes == { p \in 11 .. MaxPrime : IsPrime(p) }

KeyPairs == { generate_rsa(pq[1], pq[2]) : pq \in { pq \in Primes \X Primes : pq[1] < pq[2] } }

\* "a", "z", e-acute.
MessageAlphabet == { 97, 122, 233 }

Messages == { AsTuple(m) : m \in UNION { [1 .. n -> MessageAlphabet] : n \in 0 .. MaxMessage } }

InitRsa ==
  /\ rsa_instance \in { gen_keys(rsa) : rsa \in KeyPairs }
  /\ message \in Messages
  /\ cypher = NotCalled /\ decrypted_message = NotCalled
  /\ rsa_cipher_b64 = NotCalled /\ rsa_text = NotCalled
  /\ BlockIdle /\ FramingIdle /\ PasswordIdle /\ TransformIdle /\ StribogIdle /\ EnvelopeIdle /\ CallIdle /\ AuthIdle /\ CodesIdle /\ TextIdle

\* Encrypt on an instance that draws its keys anew (gen_keys) before it
\* encrypts.
EncryptRegenerating ==
  /\ cypher = NotCalled
  /\ rsa_instance' = gen_keys(CHOOSE rsa \in KeyPairs : gen_keys(rsa) # rsa_instance)
  /\ cypher' = RSA_encrypt(rsa_instance', message)
  /\ UNCHANGED << message, decrypted_message, rsa_cipher_b64, rsa_text, notRsaVars >>

Encrypt ==
  /\ cypher = NotCalled
  /\ cypher' = RSA_encrypt(rsa_instance, message)
  /\ UNCHANGED << rsa_instance, message, decrypted_message, rsa_cipher_b64, rsa_text, notRsaVars >>

Decrypt ==
  /\ Returned(cypher) /\ decrypted_message = NotCalled
  /\ decrypted_message' = RSA_decrypt(rsa_instance, cypher.value)
  /\ UNCHANGED << rsa_instance, message, cypher, rsa_cipher_b64, rsa_text, notRsaVars >>

RsaEncrypt ==
  /\ rsa_cipher_b64 = NotCalled
  /\ rsa_cipher_b64' = rsa_encrypt(rsa_instance, message)
  /\ UNCHANGED << rsa_instance, message, cypher, decrypted_message, rsa_text, notRsaVars >>

RsaDecrypt ==
  /\ Returned(rsa_cipher_b64) /\ rsa_text = NotCalled
  /\ rsa_text' = rsa_decrypt(rsa_instance, rsa_cipher_b64.value)
  /\ UNCHANGED << rsa_instance, message, cypher, decrypted_message, rsa_cipher_b64, notRsaVars >>

NextRsa ==
  \/ Encrypt
  \/ Decrypt
  \/ RsaEncrypt
  \/ RsaDecrypt

SpecRsa == InitRsa /\ [][NextRsa]_vars

----------------------------------------------------------------------------
(* The transforms of the cipher, applied one after another to a block.     *)

MaxApplied == 2

InitTransform ==
  /\ operand \in Blocks
  /\ applied = << >>
  /\ image = operand
  /\ BlockIdle /\ FramingIdle /\ PasswordIdle /\ RsaIdle /\ StribogIdle /\ EnvelopeIdle /\ CallIdle /\ AuthIdle /\ CodesIdle /\ TextIdle

ApplyS ==
  /\ Len(applied) < MaxApplied
  /\ image' = S(image)
  /\ applied' = Append(applied, "S")
  /\ UNCHANGED << operand, notTransformVars >>

ApplySInv ==
  /\ Len(applied) < MaxApplied
  /\ image' = S_inv(image)
  /\ applied' = Append(applied, "S_inv")
  /\ UNCHANGED << operand, notTransformVars >>

ApplyR ==
  /\ Len(applied) < MaxApplied
  /\ image' = R(image)
  /\ applied' = Append(applied, "R")
  /\ UNCHANGED << operand, notTransformVars >>

ApplyRInv ==
  /\ Len(applied) < MaxApplied
  /\ image' = R_inv(image)
  /\ applied' = Append(applied, "R_inv")
  /\ UNCHANGED << operand, notTransformVars >>

ApplyL ==
  /\ Len(applied) < MaxApplied
  /\ image' = L(image)
  /\ applied' = Append(applied, "L")
  /\ UNCHANGED << operand, notTransformVars >>

ApplyLInv ==
  /\ Len(applied) < MaxApplied
  /\ image' = L_inv(image)
  /\ applied' = Append(applied, "L_inv")
  /\ UNCHANGED << operand, notTransformVars >>

NextTransform ==
  \/ ApplyS
  \/ ApplySInv
  \/ ApplyR
  \/ ApplyRInv
  \/ ApplyL
  \/ ApplyLInv

SpecTransform == InitTransform /\ [][NextTransform]_vars

----------------------------------------------------------------------------
(* A Stribog object: constructed, updated, digested.                       *)

NumStribogInputs == 8

MaxUpdates == 1

\* m1 of test_stribog.py: the 63 bytes "0123456789012...012".
TestM1 == AsTuple([i \in 1 .. 63 |-> 48 + ((i - 1) % 10)])

StribogInputList ==
  << TestM1, << >>, << 97 >>, BytePattern(0, 64), BytePattern(2, 64),
     BytePattern(3, 65), BytePattern(4, 127), BytePattern(5, 128) >>

StribogInputs ==
  { IF i <= Len(StribogInputList) THEN StribogInputList[i] ELSE BytePattern(i, 2 * i)
      : i \in 1 .. NumStribogInputs }

StribogChunks == { << 0 >>, << 49, 50 >>, BytePattern(2, 64) }

InitStribog ==
  /\ stribog = NotConstructed /\ digest = NotCalled /\ digest_locals = NotCalled
  /\ BlockIdle /\ FramingIdle /\ PasswordIdle /\ RsaIdle /\ TransformIdle /\ EnvelopeIdle /\ CallIdle /\ AuthIdle /\ CodesIdle /\ TextIdle

\* Stribog(data, digest_size)
StribogNew ==
  /\ stribog = NotConstructed
  /\ \E data \in StribogInputs, digest_size \in { 256, 512 } :
       stribog' = [data |-> data, digest_size |-> digest_size, updates |-> 0]
  /\ UNCHANGED << digest, digest_locals, notStribogVars >>

StribogUpdate ==
  /\ stribog # NotConstructed /\ digest = NotCalled
  /\ stribog.updates < MaxUpdates
  /\ \E data \in StribogChunks :
       stribog' = [stribog EXCEPT !.data = @ \o data, !.updates = @ + 1]
  /\ UNCHANGED << digest, digest_locals, notStribogVars >>

\* digest() returns and leaves its locals as they were at the return.
Digested(run) ==
  /\ digest' = Return(run.returned)
  /\ digest_locals' = run

\* Stribog.digest(): digest_size is the field of the object, the locals start
\* as DigestStart has them.
StribogDigest ==
  /\ stribog # NotConstructed /\ digest = NotCalled
  /\ Digested(Stribog_run(stribog.data, stribog.digest_size, DigestStart(stribog.digest_size)))
  /\ UNCHANGED << stribog, notStribogVars >>

NextStribog ==
  \/ StribogNew
  \/ StribogUpdate
  \/ StribogDigest

SpecStribog == InitStribog /\ [][NextStribog]_vars

----------------------------------------------------------------------------
(* grasshopper_decrypt of envelopes whose blocks hold arbitrary bytes.     *)

MaxStored == 2

\* "a", the two bytes of e-acute, 0xff, a lone continuation byte, the lead
\* byte of a three-byte sequence.
StoredAlphabet == { 97, 195, 169, 255, 128, 226 }

StoredPrefixLens == { 0, 15 }

\* Non-empty byte strings that do not end in NUL, ill-formed UTF-8 among them.
StoredTexts ==
  { Repeat(97, p) \o AsTuple(t) :
      p \in StoredPrefixLens,
      t \in UNION { [1 .. n -> StoredAlphabet] : n \in 1 .. MaxStored } }

\* The envelope whose blocks decrypt to the bytes.
EnvelopeOf(data) == b64encode(utf8_encode(json_dumps_strs(EncryptBlocks(data))))

InitEnvelope ==
  /\ stored_bytes \in StoredTexts
  /\ text = << >>
  /\ cipher_b64 = Return(EnvelopeOf(stored_bytes))
  /\ decrypted_text = NotCalled
  /\ BlockIdle /\ PasswordIdle /\ RsaIdle /\ TransformIdle /\ StribogIdle /\ CallIdle /\ AuthIdle /\ CodesIdle /\ TextIdle

NextEnvelope ==
  \/ GrasshopperDecrypt

SpecEnvelope == InitEnvelope /\ [][NextEnvelope]_vars

----------------------------------------------------------------------------
(* Calls of the primitives, begun and ended in any order.                  *)

MaxCalls == 2

NumCallInputs == 1

PrimitiveList ==
  << "kuznechik_encrypt", "kuznechik_decrypt", "grasshopper_encrypt",
     "grasshopper_decrypt", "rsa_encrypt", "rsa_decrypt", "Stribog.digest",
     "get_password_hash", "verify_password" >>

Primitives == { PrimitiveList[f] : f \in 1 .. Len(PrimitiveList) }

\* The primitives that read the module-level RSA instance.
ReadsRsaInstance == { "rsa_encrypt", "rsa_decrypt" }

\* The key pair the module generates when it is imported.
ModuleKeys == gen_keys(generate_rsa(11, 13))

\* The i-th argument list of a primitive.
CallInput(fn, i) ==
  CASE fn = "kuznechik_encrypt" -> << BytePattern(i + 1, BlockLen), DEFAULT_KEY >>
    [] fn = "kuznechik_decrypt" -> << BytePattern(i + 2, BlockLen), DEFAULT_KEY >>
    [] fn = "grasshopper_encrypt" -> Repeat(97, i)
    [] fn = "grasshopper_decrypt" -> EnvelopeOf(Repeat(98, i))
    [] fn = "rsa_encrypt" -> Repeat(97, i)
    [] fn = "rsa_decrypt" -> rsa_encrypt(ModuleKeys, Repeat(98, i)).value
    [] fn = "Stribog.digest" -> << Repeat(97, i), 512 >>
    [] fn = "get_password_hash" -> Repeat(97, i)
    [] fn = "verify_password" ->
         << Repeat(97, i), get_password_hash(Repeat(97, i), BytePattern(0, SaltLen)).value >>

\* What the call returns or raises, given the module's RSA instance and the
\* bytes os.urandom returns during the call.
Primitive(fn, args, instance, drawn) ==
  CASE fn = "kuznechik_encrypt" -> Return(kuznechik_encrypt(args[1], args[2]))
    [] fn = "kuznechik_decrypt" -> Return(kuznechik_decrypt(args[1], args[2]))
    [] fn = "grasshopper_encrypt" -> grasshopper_encrypt(args)
    [] fn = "grasshopper_decrypt" -> grasshopper_decrypt(args)
    [] fn = "rsa_encrypt" -> rsa_encrypt(instance, args)
    [] fn = "rsa_decrypt" -> rsa_decrypt(instance, args)
    [] fn = "Stribog.digest" -> Return(Stribog_digest(args[1], args[2]))
    [] fn = "get_password_hash" -> get_password_hash(args, drawn)
    [] fn = "verify_password" -> Return(verify_password(args[1], args[2]))

\* The salts os.urandom may return during a call, by number.
DrawnBy(fn) == IF fn = "get_password_hash" THEN 0 .. NumSalts - 1 ELSE { 0 }

Drawn(fn, s) == IF fn = "get_password_hash" THEN BytePattern(s, SaltLen) ELSE << >>

CallResult(fn, i, instance, s) ==
  Primitive(fn, CallInput(fn, i), instance, Drawn(fn, s))

InitCalls ==
  /\ calls = << >>
  /\ rsa_instance = ModuleKeys /\ message = << >>
  /\ cypher = NotCalled /\ decrypted_message = NotCalled
  /\ rsa_cipher_b64 = NotCalled /\ rsa_text = NotCalled
  /\ BlockIdle /\ FramingIdle /\ PasswordIdle /\ TransformIdle /\ StribogIdle /\ EnvelopeIdle /\ AuthIdle /\ CodesIdle /\ TextIdle

\* A call is made: its arguments are bound.
BeginCall ==
  /\ Len(calls) < MaxCalls
  /\ \E fn \in Primitives, i \in 1 .. NumCallInputs :
       calls' = Append(calls, [fn |-> fn, input |-> i, drawn |-> << >>, output |-> NotCalled])
  /\ UNCHANGED notCallVars

\* EndCall of a call that generates the keys of the RSA instance anew.
EndCallRekeying ==
  /\ \E c \in 1 .. Len(calls) :
       /\ calls[c].output = NotCalled
       /\ \E s \in DrawnBy(calls[c].fn) :
            calls' = [calls EXCEPT ![c].drawn = Drawn(calls[c].fn, s),
                                   ![c].output = CallResult(calls[c].fn, calls[c].input,
                                                            rsa_instance, s)]
  /\ rsa_instance' = IF rsa_instance = ModuleKeys THEN gen_keys(generate_rsa(11, 17))
                     ELSE ModuleKeys
  /\ UNCHANGED << message, cypher, decrypted_message, rsa_cipher_b64, rsa_text,
                  blockVars, framingVars, passwordVars, transformVars, stribogVars,
                  envelopeVars, authVars, codesVars, textVars >>

\* A call in flight runs to its end, whatever began or ended since it began.
EndCall ==
  /\ \E c \in 1 .. Len(calls) :
       /\ calls[c].output = NotCalled
       /\ \E s \in DrawnBy(calls[c].fn) :
            calls' = [calls EXCEPT ![c].drawn = Drawn(calls[c].fn, s),
                                   ![c].output = CallResult(calls[c].fn, calls[c].input,
                                                            rsa_instance, s)]
  /\ UNCHANGED notCallVars

NextCalls ==
  \/ BeginCall
  \/ EndCall

SpecCalls == InitCalls /\ [][NextCalls]_vars

-----------------------------------------------------------------------------
(* Accounts: repositories/auth.py on the users table, with the password    *)
(* functions of core/auth/password.py.                                     *)

MaxUsers == 2

\* "$2b$12$", the head of what bcrypt.gensalt() returns.
BcryptHead == << 36, 50, 98, 36, 49, 50, 36 >>

BcryptSaltChars == 22

\* What bcrypt.gensalt() may return: the head and 22 characters of salt.
BcryptSalts == { BcryptHead \o Repeat(65 + s, BcryptSaltChars) : s \in 0 .. NumSalts - 1 }

\* bcrypt.hashpw(password, salt): the salt followed by the digest of the
\* password under it.  The digest of the library is stood in for by the hex
\* form of the password bytes behind the last salt character, which like the
\* digest is a function of both and differs where either differs.
bcrypt_hashpw(pwd, gensalt) ==
  gensalt \o hexlify(<< gensalt[Len(gensalt)] >> \o pwd)

\* bcrypt.checkpw(password, hashed_password): hashpw under the salt that
\* heads hashed_password gives hashed_password again; ValueError where no
\* salt heads it.
bcrypt_checkpw(pwd, hashed_pwd) ==
  LET n == Len(BcryptHead) + BcryptSaltChars
  IN  IF Len(hashed_pwd) < n \/ SubSeq(hashed_pwd, 1, Len(BcryptHead)) # BcryptHead
      THEN Raise("ValueError")
      ELSE Return(bcrypt_hashpw(pwd, SubSeq(hashed_pwd, 1, n)) = hashed_pwd)

\* core.auth.password.get_password_hash with the salt bcrypt.gensalt() drew.
auth_get_password_hash(pwd, gensalt) ==
  IF Unencodable(pwd) THEN Raise("UnicodeEncodeError")
  ELSE Return(bcrypt_hashpw(utf8_encode(pwd), gensalt))

\* core.auth.password.verify_password
auth_verify_password(plain, hashed_pwd) ==
  IF Unencodable(plain) \/ Unencodable(hashed_pwd) THEN Raise("UnicodeEncodeError")
  ELSE bcrypt_checkpw(utf8_encode(plain), utf8_encode(hashed_pwd))

\* AuthRepository._hash_password
_hash_password(pwd, gensalt) == auth_get_password_hash(pwd, gensalt)

\* "alice", "bob", then "user3", ...
Logins ==
  { IF i = 1 THEN << 97, 108, 105, 99, 101 >>
    ELSE IF i = 2 THEN << 98, 111, 98 >>
    ELSE << 117, 115, 101, 114, 48 + i >> : i \in 1 .. MaxUsers }

\* The rows select(User).where(or_(username == login, email == login),
\* is_active == True) returns.
UsersByLogin(login) ==
  { u \in 1 .. Len(users) :
      /\ users[u].username = login \/ users[u].email = login
      /\ users[u].is_active }

\* get_user_by_id: the row with that id, 0 for None.
get_user_by_id(user_id) ==
  IF user_id \in 1 .. Len(users) /\ users[user_id].is_active THEN user_id ELSE 0

InitAuth ==
  /\ users = << >> /\ auth_data = << >> /\ auth_user = NotCalled
  /\ BlockIdle /\ FramingIdle /\ PasswordIdle /\ RsaIdle /\ TransformIdle /\ StribogIdle /\ EnvelopeIdle /\ CallIdle /\ CodesIdle /\ TextIdle

\* register_user: None where the login is taken, else the row with the hash
\* of the password; an exception of the hashing leaves the table as it was.
RegisterUser ==
  /\ Len(users) < MaxUsers
  /\ \E login \in Logins, pwd \in Passwords, gensalt \in BcryptSalts :
       LET hashed_pwd == _hash_password(pwd, gensalt)
       IN  /\ UsersByLogin(login) = { }
           /\ Returned(hashed_pwd)
           /\ users' = Append(users, [username |-> login, email |-> << >>,
                                      password_hash |-> hashed_pwd.value,
                                      is_active |-> TRUE])
  /\ UNCHANGED << auth_data, auth_user, notAuthVars >>

\* update_user_password: False where no active row has the id, else the
\* hash of the new password is written to the row.
UpdateUserPassword ==
  /\ \E user_id \in 1 .. MaxUsers, pwd \in Passwords, gensalt \in BcryptSalts :
       LET hashed_pwd == _hash_password(pwd, gensalt)
       IN  /\ get_user_by_id(user_id) # 0
           /\ Returned(hashed_pwd)
           /\ users' = [users EXCEPT ![user_id].password_hash = hashed_pwd.value]
  /\ UNCHANGED << auth_data, auth_user, notAuthVars >>

\* authenticate_user without the check of the password.
authenticate_user_unverified(login, pwd) ==
  IF UsersByLogin(login) = { } THEN Return(0)
  ELSE Return(CHOOSE u \in UsersByLogin(login) : TRUE)

\* authenticate_user: the id of the row found, 0 for None.
authenticate_user(login, pwd) ==
  IF UsersByLogin(login) = { } THEN Return(0)
  ELSE LET user == CHOOSE u \in UsersByLogin(login) : TRUE
           accepted == auth_verify_password(pwd, users[user].password_hash)
       IN  IF Raised(accepted) THEN accepted
           ELSE IF ~accepted.value THEN Return(0)
           ELSE Return(user)

AuthenticateUser ==
  /\ \E login \in Logins, pwd \in Passwords :
       /\ auth_data' = [login |-> login, password |-> pwd]
       /\ auth_user' = authenticate_user(login, pwd)
  /\ UNCHANGED << users, notAuthVars >>

NextAuth ==
  \/ RegisterUser
  \/ UpdateUserPassword
  \/ AuthenticateUser

SpecAuth == InitAuth /\ [][NextAuth]_vars

-----------------------------------------------------------------------------
(* Login confirmation codes: services/temp_codes.py over                   *)
(* repositories/temp_codes.py.  A request is a coroutine: it gives way at  *)
(* every await on the session, so its steps are separate actions and the   *)
(* steps of other requests may fall between them.                          *)

MaxRequests == 2

MaxTempCodes == 2

NumCodes == 2

\* The clock ends here.
MaxNow == 15

\* The clock moves in steps of this many minutes.
TickMinutes == 5

\* expires_minutes
ExpiresMinutes == 10

LoginConfirmation == "login_confirmation"

\* What generate_code may return: "000000", "111111", ...
Codes == { Repeat(48 + c, 6) : c \in 0 .. NumCodes - 1 }

\* "a@b.c"
SampleEmail == << 97, 64, 98, 46, 99 >>

\* The users of the requests: the first has an e-mail address, the others
\* have none.
SampleUsers ==
  AsTuple([u \in 1 .. MaxUsers |->
    [username |-> IF u = 1 THEN << 97 >> ELSE << 98, 48 + u >>,
     email |-> IF u = 1 THEN SampleEmail ELSE << >>,
     password_hash |-> bcrypt_hashpw(<< 97 >>, BcryptHead \o Repeat(65, BcryptSaltChars)),
     is_active |-> TRUE]])

\* The ids a request may name: those of the users and one of no user.
RequestUserIds == 1 .. MaxUsers + 1

\* get_valid_code: the ids of the rows the query selects.
ValidCodes(user_id, code, code_type) ==
  { row.id : row \in
      { row \in temp_codes :
          /\ row.user_id = user_id
          /\ row.code = code
          /\ row.code_type = code_type
          /\ row.is_active
          /\ ~row.is_used
          /\ row.expires_at > utcnow } }

\* deactivate_user_codes: the ids of the rows the query selects.
ActiveUnusedCodes(user_id, code_type) ==
  { row.id : row \in
      { row \in temp_codes :
          /\ row.user_id = user_id
          /\ row.code_type = code_type
          /\ row.is_active
          /\ ~row.is_used } }

\* The table after the UPDATE of the rows ids that a commit flushes.
SetIsActive(ids, value) ==
  { IF row.id \in ids THEN [row EXCEPT !.is_active = value] ELSE row : row \in temp_codes }

SetIsUsed(ids) ==
  { IF row.id \in ids THEN [row EXCEPT !.is_used = TRUE] ELSE row : row \in temp_codes }

\* The request r with its position, the rows it holds and its answer (the
\* HTTP status, 0 while it runs).
Proceed(r, pc, held, status) ==
  [requests EXCEPT ![r].pc = pc, ![r].held = held, ![r].status = status]

\* The row a send_login_code for the first user left at minute 0.
StoredCode ==
  [id |-> 1, user_id |-> 1, code |-> Repeat(48, 6), code_type |-> LoginConfirmation,
   expires_at |-> ExpiresMinutes, is_used |-> FALSE, is_active |-> TRUE]

\* The table is empty or holds one code sent before.
InitCodes ==
  /\ temp_codes \in { { }, { StoredCode } }
  /\ last_temp_code_id = Cardinality(temp_codes)
  /\ utcnow = 0 /\ requests = << >>
  /\ users = SampleUsers /\ auth_data = << >> /\ auth_user = NotCalled
  /\ BlockIdle /\ FramingIdle /\ PasswordIdle /\ RsaIdle /\ TransformIdle /\ StribogIdle /\ EnvelopeIdle /\ CallIdle /\ TextIdle

\* Minutes pass.
Tick ==
  /\ utcnow + TickMinutes <= MaxNow
  /\ utcnow' = utcnow + TickMinutes
  /\ UNCHANGED << temp_codes, last_temp_code_id, requests, notCodesVars >>

\* send_login_code up to its first write: 404 for no user, 400 for a user
\* without e-mail address.
SendLoginCode ==
  /\ Len(requests) < MaxRequests
  /\ \E user_id \in RequestUserIds :
       LET user == get_user_by_id(user_id)
           status == IF user = 0 THEN 404
                     ELSE IF users[user].email = << >> THEN 400
                     ELSE 0
       IN  requests' = Append(requests,
             [op |-> "send_login_code", user_id |-> user_id, code |-> << >>,
              pc |-> IF status = 0 THEN "deactivate_user_codes" ELSE "done",
              held |-> { }, status |-> status])
  /\ UNCHANGED << temp_codes, last_temp_code_id, utcnow, notCodesVars >>

\* deactivate_user_codes, the query: the rows it returns are held.
DeactivateSelect ==
  /\ \E r \in 1 .. Len(requests) :
       /\ requests[r].pc = "deactivate_user_codes"
       /\ requests' = Proceed(r, "deactivate_commit",
                              ActiveUnusedCodes(requests[r].user_id, LoginConfirmation), 0)
  /\ UNCHANGED << temp_codes, last_temp_code_id, utcnow, notCodesVars >>

\* deactivate_user_codes, the commit: the rows held are not active any more.
DeactivateCommit ==
  /\ \E r \in 1 .. Len(requests) :
       /\ requests[r].pc = "deactivate_commit"
       /\ temp_codes' = SetIsActive(requests[r].held, FALSE)
       /\ requests' = Proceed(r, "create_temp_code", { }, 0)
  /\ UNCHANGED << last_temp_code_id, utcnow, notCodesVars >>

\* generate_code and create_temp_code: a row with a fresh code that expires
\* in ten minutes.
CreateTempCode ==
  /\ last_temp_code_id < MaxTempCodes
  /\ \E r \in 1 .. Len(requests), code \in Codes :
       /\ requests[r].pc = "create_temp_code"
       /\ last_temp_code_id' = last_temp_code_id + 1
       /\ temp_codes' = temp_codes \cup
            { [id |-> last_temp_code_id + 1, user_id |-> requests[r].user_id,
               code |-> code, code_type |-> LoginConfirmation,
               expires_at |-> utcnow + ExpiresMinutes,
               is_used |-> FALSE, is_active |-> TRUE] }
       /\ requests' = [Proceed(r, "send_email", { last_temp_code_id + 1 }, 0)
                         EXCEPT ![r].code = code]
  /\ UNCHANGED << utcnow, notCodesVars >>

\* send_email and the end of send_login_code: 200, or 500 with the row
\* created not active any more.
SendEmail ==
  /\ \E r \in 1 .. Len(requests), success \in BOOLEAN :
       /\ requests[r].pc = "send_email"
       /\ temp_codes' = IF success THEN temp_codes ELSE SetIsActive(requests[r].held, FALSE)
       /\ requests' = Proceed(r, "done", requests[r].held, IF success THEN 200 ELSE 500)
  /\ UNCHANGED << last_temp_code_id, utcnow, notCodesVars >>

\* verify_login_code up to get_valid_code: 400 where the query finds no row,
\* MultipleResultsFound of scalar_one_or_none (500) where it finds several.
VerifyLoginCode ==
  /\ Len(requests) < MaxRequests
  /\ \E user_id \in RequestUserIds, code \in Codes :
       LET found == ValidCodes(user_id, code, LoginConfirmation)
           status == IF found = { } THEN 400
                     ELSE IF Cardinality(found) > 1 THEN 500
                     ELSE 0
       IN  requests' = Append(requests,
             [op |-> "verify_login_code", user_id |-> user_id, code |-> code,
              pc |-> IF status = 0 THEN "mark_code_as_used" ELSE "done",
              held |-> IF status = 0 THEN found ELSE { }, status |-> status])
  /\ UNCHANGED << temp_codes, last_temp_code_id, utcnow, notCodesVars >>

\* mark_code_as_used and the end of verify_login_code: the row held is
\* used, the answer is 200.
MarkCodeAsUsed ==
  /\ \E r \in 1 .. Len(requests) :
       /\ requests[r].pc = "mark_code_as_used"
       /\ temp_codes' = SetIsUsed(requests[r].held)
       /\ requests' = Proceed(r, "done", requests[r].held, 200)
  /\ UNCHANGED << last_temp_code_id, utcnow, notCodesVars >>

\* cleanup_expired_codes: the ids of the rows the DELETE selects.
ExpiredActiveCodes ==
  { row.id : row \in { row \in temp_codes : row.expires_at < utcnow /\ row.is_active } }

\* cleanup_expired_codes: one DELETE and its commit; the rows deleted are
\* held, their number is deleted_count.
CleanupExpiredCodes ==
  /\ Len(requests) < MaxRequests
  /\ temp_codes' = { row \in temp_codes : row.id \notin ExpiredActiveCodes }
  /\ requests' = Append(requests,
       [op |-> "cleanup_expired_codes", user_id |-> 0, code |-> << >>, pc |-> "done",
        held |-> ExpiredActiveCodes, status |-> 200,
        deleted_count |-> Cardinality(ExpiredActiveCodes)])
  /\ UNCHANGED << last_temp_code_id, utcnow, notCodesVars >>

NextCodes ==
  \/ Tick
  \/ SendLoginCode
  \/ DeactivateSelect
  \/ DeactivateCommit
  \/ CreateTempCode
  \/ SendEmail
  \/ VerifyLoginCode
  \/ MarkCodeAsUsed
  \/ CleanupExpiredCodes

SpecCodes == InitCodes /\ [][NextCodes]_vars

-----------------------------------------------------------------------------
(* Stored texts: api/v1/endpoints/text.py, services/text.py and            *)
(* repositories/text.py.  An optional field is << >> for None and << v >>  *)
(* for the value v.                                                        *)

MaxTexts == 3

MaxTextRequests == 2

\* len(text) > 10000
MaxTextLength == 10000

None == << >>

Some(v) == << v >>

\* ["rsa", "grasshopper"]
EncryptionTypes == { "rsa", "grasshopper" }

\* str.isspace() on the code points below 256.
IsSpace(c) == c \in 9 .. 13 \/ c \in 28 .. 32 \/ c = 133 \/ c = 160

\* not text or len(text.strip()) == 0
IsBlank(str) == \A i \in 1 .. Len(str) : IsSpace(str[i])

\* rsa_encrypt(text) under the keys of the module.
text_rsa_encrypt(plain) == rsa_encrypt(ModuleKeys, plain)

\* grasshopper_encrypt(text)
text_grasshopper_encrypt(plain) == grasshopper_encrypt(plain)

\* rsa_decrypt(text) under the keys of the module.
text_rsa_decrypt(stored) == rsa_decrypt(ModuleKeys, stored)

\* grasshopper_decrypt(text)
text_grasshopper_decrypt(stored) == grasshopper_decrypt(stored)

\* What create_text and update_text make of what the encryption returned or
\* raised: the text to save, or the status of the HTTPException (400), 500
\* for an exception nobody catches (RSA: except ValueError).
Saved(encryption_type, r) ==
  IF Returned(r) THEN [status |-> 0, text |-> r.value]
  ELSE [status |-> IF encryption_type = "rsa" /\ r.raised # "ValueError" THEN 500 ELSE 400,
        text |-> << >>]

\* The encryption of create_text and update_text: the text to save, or the
\* status of the HTTPException.
EncryptToSave(encryption_type, plain) ==
  IF encryption_type \in EncryptionTypes
  THEN Saved(encryption_type,
             IF encryption_type = "rsa" THEN text_rsa_encrypt(plain)
             ELSE text_grasshopper_encrypt(plain))
  ELSE [status |-> 0, text |-> plain]

\* What get_text and update_text make of what the decryption returned or
\* raised: the text, or 500.
Opened(r) ==
  IF Returned(r) THEN [status |-> 0, text |-> r.value] ELSE [status |-> 500, text |-> << >>]

\* The decryption of get_text and update_text: the text, or 500.
DecryptStored(encryption_type, stored) ==
  IF encryption_type \in EncryptionTypes
  THEN Opened(IF encryption_type = "rsa" THEN text_rsa_decrypt(stored)
              ELSE text_grasshopper_decrypt(stored))
  ELSE [status |-> 0, text |-> stored]

\* get_text_by_id_and_user without the condition on user_id.
get_text_by_id(text_id, user_id) ==
  IF text_id \in 1 .. Len(texts) THEN text_id ELSE 0

\* get_text_by_id_and_user: the id of the row, 0 for None.
get_text_by_id_and_user(text_id, user_id) ==
  IF text_id \in 1 .. Len(texts) /\ texts[text_id].user_id = user_id THEN text_id ELSE 0

\* The checks of update_text on update_data before it looks the text up:
\* the status they raise, 0 where they pass.
ValidateUpdate(update_data) ==
  IF /\ update_data.encryption_type # None
     /\ update_data.encryption_type[1] # ""
     /\ update_data.encryption_type[1] \notin EncryptionTypes
  THEN 400
  ELSE IF update_data.text # None
          /\ (IsBlank(update_data.text[1]) \/ Len(update_data.text[1]) > MaxTextLength)
  THEN 400
  ELSE IF update_data.encryption_type = None /\ update_data.text = None
          /\ update_data.is_active = None
  THEN 400
  ELSE 0

\* update_data with the text to save in it, or the status the encryption
\* raised.
WithText(update_data, saved) ==
  IF saved.status # 0 THEN [status |-> saved.status, update_data |-> update_data]
  ELSE [status |-> 0, update_data |-> [update_data EXCEPT !.text = Some(saved.text)]]

\* update_text: the text of the request, where there is one, is encrypted
\* under the encryption type of the request, else under that of the row.
EncryptGiven(current_text, update_data) ==
  IF update_data.text = None THEN [status |-> 0, update_data |-> update_data]
  ELSE WithText(update_data,
                EncryptToSave(IF update_data.encryption_type # None
                              THEN update_data.encryption_type[1]
                              ELSE current_text.encryption_type,
                              update_data.text[1]))

\* update_text where the encryption type changes, on plain_text, the stored
\* text decrypted: with no text in the request, plain_text is encrypted
\* under the new type.
ReencryptPlain(update_data, plain_text) ==
  IF plain_text.status # 0 THEN [status |-> plain_text.status, update_data |-> update_data]
  ELSE IF update_data.text # None \/ update_data.encryption_type[1] \notin EncryptionTypes
  THEN [status |-> 0, update_data |-> update_data]
  ELSE WithText(update_data, EncryptToSave(update_data.encryption_type[1], plain_text.text))

\* update_text after the encryption of the text of the request, which left
\* given: where the encryption type changes, the stored text is decrypted.
ReencryptStored(current_text, given) ==
  IF given.status # 0 THEN given
  ELSE IF \/ given.update_data.encryption_type = None
          \/ given.update_data.encryption_type[1] = current_text.encryption_type
  THEN given
  ELSE ReencryptPlain(given.update_data,
                      DecryptStored(current_text.encryption_type, current_text.text))

\* update_text of the service between the lookup and the call of the
\* repository, on the row current_text: the status it raises, or 0 and
\* update_data as it hands it on.
PrepareUpdate(current_text, update_data) ==
  ReencryptStored(current_text, EncryptGiven(current_text, update_data))

\* TextRepository.update_text on the row: the fields given are written.
UpdatedRow(row, update_data) ==
  [row EXCEPT
     !.encryption_type = IF update_data.encryption_type # None
                         THEN update_data.encryption_type[1] ELSE @,
     !.text = IF update_data.text # None THEN update_data.text[1] ELSE @,
     !.is_active = IF update_data.is_active # None THEN update_data.is_active[1] ELSE @]

\* "a", " ", "ab", "a\x00"
TextInputs == { << 97 >>, << 32 >>, << 97, 98 >>, << 97, 0 >> }

\* The encryption types a request may name.
RequestedTypes == { "rsa", "grasshopper", "aes" }

NoUpdate == [encryption_type |-> None, text |-> None, is_active |-> None]

\* The bodies of the update requests.
UpdatePayloads ==
  { NoUpdate,
    [NoUpdate EXCEPT !.encryption_type = Some("aes")],
    [NoUpdate EXCEPT !.encryption_type = Some("")],
    [NoUpdate EXCEPT !.encryption_type = Some("rsa")],
    [NoUpdate EXCEPT !.encryption_type = Some("grasshopper")],
    [NoUpdate EXCEPT !.text = Some(<< 32 >>)],
    [NoUpdate EXCEPT !.text = Some(<< 98 >>)],
    [NoUpdate EXCEPT !.is_active = Some(FALSE)],
    [NoUpdate EXCEPT !.encryption_type = Some("rsa"), !.text = Some(<< 98 >>)] }

\* The rows two create_text requests left: one of each user, one of each
\* encryption type.
SampleTexts ==
  << [user_id |-> 1, encryption_type |-> "grasshopper",
      text |-> text_grasshopper_encrypt(<< 97 >>).value, is_active |-> TRUE],
     [user_id |-> 2, encryption_type |-> "rsa",
      text |-> text_rsa_encrypt(<< 97 >>).value, is_active |-> TRUE] >>

\* The ids of texts a request may name: those of the rows there are and of
\* the rows there may come to be.
RequestTextIds == 1 .. MaxTexts

\* A request: given is the body as it came in, update_data the object the
\* service works on.
TextRequest(op, text_id, user_id, update_data, pc, status, response) ==
  [op |-> op, text_id |-> text_id, user_id |-> user_id, given |-> update_data,
   update_data |-> update_data, pc |-> pc, status |-> status, response |-> response]

InitTexts ==
  /\ texts = SampleTexts /\ text_requests = << >>
  /\ users = SampleUsers /\ auth_data = << >> /\ auth_user = NotCalled
  /\ rsa_instance = ModuleKeys /\ message = << >>
  /\ cypher = NotCalled /\ decrypted_message = NotCalled
  /\ rsa_cipher_b64 = NotCalled /\ rsa_text = NotCalled
  /\ BlockIdle /\ FramingIdle /\ PasswordIdle /\ TransformIdle /\ StribogIdle /\ EnvelopeIdle /\ CallIdle /\ CodesIdle

\* create_text once its checks passed, on what the encryption left: the
\* status it raised, else the row with the encrypted text and 201.
Created(user_id, encryption_type, plain, saved) ==
  /\ texts' = IF saved.status # 0 THEN texts
              ELSE Append(texts, [user_id |-> user_id, encryption_type |-> encryption_type,
                                  text |-> saved.text, is_active |-> TRUE])
  /\ text_requests' = Append(text_requests,
       TextRequest("create_text", IF saved.status # 0 THEN 0 ELSE Len(texts) + 1, user_id,
                   [NoUpdate EXCEPT !.encryption_type = Some(encryption_type),
                                    !.text = Some(plain)],
                   "done", IF saved.status # 0 THEN saved.status ELSE 201, None))

\* create_text: 400 for an encryption type or a text it turns down or
\* cannot encrypt, else the row with the encrypted text and 201.
CreateText ==
  /\ Len(text_requests) < MaxTextRequests /\ Len(texts) < MaxTexts
  /\ \E user_id \in 1 .. MaxUsers, encryption_type \in RequestedTypes, plain \in TextInputs :
       IF \/ encryption_type \notin EncryptionTypes
          \/ IsBlank(plain)
          \/ Len(plain) > MaxTextLength
       THEN /\ texts' = texts
            /\ text_requests' = Append(text_requests,
                 TextRequest("create_text", 0, user_id,
                             [NoUpdate EXCEPT !.encryption_type = Some(encryption_type),
                                              !.text = Some(plain)],
                             "done", 400, None))
       ELSE Created(user_id, encryption_type, plain, EncryptToSave(encryption_type, plain))
  /\ UNCHANGED notTextVars

\* The answer of get_text and update_text to the request q, on the text of
\* the row decrypted: the text and 200, or the status the decryption raised.
Answered(q, decrypted_text_) ==
  [q EXCEPT !.pc = "done",
            !.status = IF decrypted_text_.status # 0 THEN decrypted_text_.status ELSE 200,
            !.response = IF decrypted_text_.status # 0 THEN None
                         ELSE Some(decrypted_text_.text)]

\* get_text: 404 where the user has no row with the id, else the text
\* decrypted.
GetText ==
  /\ Len(text_requests) < MaxTextRequests
  /\ \E text_id \in RequestTextIds, user_id \in 1 .. MaxUsers :
       LET found == get_text_by_id_and_user(text_id, user_id)
       IN  text_requests' = Append(text_requests,
             IF found = 0 THEN TextRequest("get_text", text_id, user_id, NoUpdate, "done", 404, None)
             ELSE Answered(TextRequest("get_text", text_id, user_id, NoUpdate, "done", 0, None),
                           DecryptStored(texts[found].encryption_type, texts[found].text)))
  /\ UNCHANGED << texts, notTextVars >>

\* update_text on what PrepareUpdate left: the status it raised, else the
\* request as it goes on to the repository.
HandedOn(text_id, user_id, update_data, prepared) ==
  IF prepared.status # 0
  THEN TextRequest("update_text", text_id, user_id, update_data, "done", prepared.status, None)
  ELSE [TextRequest("update_text", text_id, user_id, update_data,
                     "repository.update_text", 0, None)
          EXCEPT !.update_data = prepared.update_data]

\* update_text of the service up to the call of the repository.
UpdateText ==
  /\ Len(text_requests) < MaxTextRequests
  /\ \E text_id \in RequestTextIds, user_id \in 1 .. MaxUsers, update_data \in UpdatePayloads :
       LET invalid == ValidateUpdate(update_data)
           found == get_text_by_id_and_user(text_id, user_id)
       IN  text_requests' = Append(text_requests,
             IF invalid # 0
             THEN TextRequest("update_text", text_id, user_id, update_data, "done", invalid, None)
             ELSE IF found = 0
             THEN TextRequest("update_text", text_id, user_id, update_data, "done", 404, None)
             ELSE HandedOn(text_id, user_id, update_data,
                           PrepareUpdate(texts[found], update_data)))
  /\ UNCHANGED << texts, notTextVars >>

\* TextRepository.update_text and the rest of update_text of the service:
\* the row is written and its text decrypted for the answer.
RepositoryUpdateText ==
  /\ \E r \in 1 .. Len(text_requests) :
       LET q == text_requests[r]
           found == get_text_by_id_and_user(q.text_id, q.user_id)
           row == UpdatedRow(texts[found], q.update_data)
       IN  /\ q.pc = "repository.update_text"
           /\ texts' = IF found = 0 THEN texts ELSE [texts EXCEPT ![found] = row]
           /\ text_requests' =
                [text_requests EXCEPT
                   ![r] = IF found = 0 THEN [q EXCEPT !.pc = "done", !.status = 404]
                          ELSE Answered(q, DecryptStored(row.encryption_type, row.text))]
  /\ UNCHANGED notTextVars

\* delete_text: 404 where the user has no row with the id, else the row is
\* not active any more.
DeleteText ==
  /\ Len(text_requests) < MaxTextRequests
  /\ \E text_id \in RequestTextIds, user_id \in 1 .. MaxUsers :
       LET found == get_text_by_id_and_user(text_id, user_id)
       IN  /\ texts' = IF found = 0 THEN texts ELSE [texts EXCEPT ![found].is_active = FALSE]
           /\ text_requests' = Append(text_requests,
                TextRequest("delete_text", text_id, user_id, NoUpdate, "done",
                            IF found = 0 THEN 404 ELSE 200, None))
  /\ UNCHANGED notTextVars

NextTexts ==
  \/ CreateText
  \/ GetText
  \/ UpdateText
  \/ RepositoryUpdateText
  \/ DeleteText

SpecTexts == InitTexts /\ [][NextTexts]_vars

----------------------------------------------------------------------------
(* The properties.                                                         *)

\* C1: for every text that is valid UTF-8 (no lone surrogate) and does not end
\* in NUL, the empty text included, grasshopper_encrypt returns an envelope
\* and grasshopper_decrypt of that envelope returns exactly the text.
C1_FramingRoundTrip ==
  (~Unencodable(text) /\ (Len(text) = 0 \/ text[Len(text)] # 0))
    => /\ cipher_b64 # NotCalled => Returned(cipher_b64)
       /\ decrypted_text # NotCalled => decrypted_text = Return(text)

\* C2: for every block and key, decrypting the encryption of the block under
\* the key with the same key returns the block, whichever of kuznechik_encrypt
\* and _kuznechik_encrypt_int encrypted it and whichever of kuznechik_decrypt
\* and _kuznechik_decrypt_int decrypts it.
C2_BlockRoundTrip == decrypted_by # "" => decrypted_int = block_int

C2_Witness ==
  /\ encrypted_by = "kuznechik_encrypt" /\ decrypted_by = "_kuznechik_decrypt_int"
  /\ key # DEFAULT_KEY
  /\ encrypted_int # block_int
  /\ decrypted_int = block_int

\* C3: for every password and every salt get_password_hash may draw,
\* verify_password of the password and the record returned is true.
C3_VerifyAccepts ==
  (verified # "" /\ tampered = "" /\ plain_password = password) => verified = "True"

C3_Witness ==
  /\ verified = "True" /\ tampered = "" /\ plain_password = password
  /\ password = PasswordList[4]
  /\ salt = BytePattern(1, SaltLen)

\* C4: for every pair of different passwords, verify_password of the one and
\* the record of the other is false.
C4_VerifyRejects ==
  (verified # "" /\ tampered = "" /\ plain_password # password) => verified = "False"

C4_Witness ==
  /\ verified = "False" /\ tampered = ""
  /\ password = PasswordList[1] /\ plain_password = PasswordList[2]

RECURSIVE C6_Iterated(_, _)
C6_Iterated(data, iterations) ==
  IF iterations <= 1 THEN Stribog_digest(data, 512)
  ELSE Stribog_digest(C6_Iterated(data, iterations - 1), 512)

C7_MalformedRejected ==
  LET parts == split(hashed_password, Dollar)
      malformed == \/ Len(parts) # 3
                   \/ lower(parts[1]) # TagStreebog512
                   \/ ~IsHex(parts[2])
                   \/ ~IsHex(parts[3])
  IN  (verified # "" /\ malformed) => verified = "False"

C7_Witness ==
  /\ verified = "False"
  /\ tampered = "salt_not_hex"
  /\ plain_password = password
  /\ ~IsHex(split(hashed_password, Dollar)[2])

\* C8: for every key pair whose modulus exceeds every code point of the text
\* and every short ASCII text, RSA.encrypt returns a list that RSA.decrypt
\* turns back into the text, and rsa_encrypt returns an envelope that
\* rsa_decrypt turns back into the text.
C8_RsaRoundTrip ==
  (\A i \in 1 .. Len(message) : message[i] < 128 /\ message[i] < rsa_instance.n)
    => /\ cypher # NotCalled => Returned(cypher)
       /\ decrypted_message # NotCalled => decrypted_message = Return(message)
       /\ rsa_cipher_b64 # NotCalled => Returned(rsa_cipher_b64)
       /\ rsa_text # NotCalled => rsa_text = Return(message)

\* C9: for every text of n characters, n >= 0, RSA.encrypt returns exactly n
\* integers, the i-th being (code point of the i-th character)^e mod the
\* modulus, in input order.
C9_OneNumberPerChar ==
  cypher # NotCalled =>
    /\ Returned(cypher)
    /\ Len(cypher.value) = Len(message)
    /\ \A i \in 1 .. Len(message) :
         cypher.value[i] = pow(message[i], rsa_instance.e, rsa_instance.n)

\* C10: RSA.encrypt of a text holding a character whose code point is at
\* least the modulus ends in KeyRangeError and returns no ciphertext.
C10_KeyRangeError ==
  (cypher # NotCalled /\ \E i \in 1 .. Len(message) : message[i] >= rsa_instance.n)
    => cypher = Raise("KeyRangeError")

\* C11: kuznechik_encrypt of the block 0x1122334455667700ffeeddccbbaa9988
\* under the key 0x8899aabb...89abcdef returns
\* 0x7f679d90bebc24305a468d42b9d4edcd, and kuznechik_decrypt of that
\* ciphertext under the same key returns the block.
C11_KnownAnswer ==
  LET expected == << 127, 103, 157, 144, 190, 188, 36, 48,
                     90, 70, 141, 66, 185, 212, 237, 205 >>
  IN  (key = DEFAULT_KEY /\ block_int = TestMessage) =>
        /\ encrypted_by # "" => encrypted_int = expected
        /\ decrypted_by # "" => (encrypted_int = expected /\ decrypted_int = TestMessage)

C11_Witness ==
  /\ key = DEFAULT_KEY /\ block_int = TestMessage
  /\ encrypted_by = "kuznechik_encrypt" /\ decrypted_by = "kuznechik_decrypt"
  /\ encrypted_int[1] = 127 /\ encrypted_int[16] = 205
  /\ decrypted_int = TestMessage

\* C13: the substitution table and its inverse are mutually inverse
\* permutations of the 256 byte values, and S_inv(S(x)) = x and
\* S(S_inv(x)) = x for every 128-bit x.
C13_SubstitutionInverse ==
  /\ \A b \in Byte : pi_inv[pi[b + 1] + 1] = b /\ pi[pi_inv[b + 1] + 1] = b
  /\ { pi[b + 1] : b \in Byte } = Byte
  /\ applied = << "S", "S_inv" >> => image = operand
  /\ applied = << "S_inv", "S" >> => image = operand

C13_Witness ==
  /\ applied = << "S", "S_inv" >>
  /\ operand = TestMessage
  /\ image = operand
  /\ S(operand) # operand

\* C14: for every 128-bit x, R_inv(R(x)) = x and L_inv(L(x)) = x.
C14_LinearInverse ==
  /\ applied = << "R", "R_inv" >> => image = operand
  /\ applied = << "L", "L_inv" >> => image = operand

C14_Witness ==
  /\ applied = << "L", "L_inv" >>
  /\ operand = TestMessage
  /\ image = operand
  /\ L(operand) # operand

\* C12: Stribog.digest of the 63-byte sample message of test_stribog.py is
\* the published digest 486f64c1...1ad0541b (byte-reversed) in 512-bit mode
\* and 00557be5...ef1e159d (byte-reversed) in 256-bit mode.
C12_KnownAnswer ==
  LET check512 ==
        << 27, 84, 208, 26, 74, 245, 185, 213, 204, 61, 134, 214, 141, 40, 84,
           98, 177, 154, 188, 36, 117, 34, 47, 53, 192, 133, 18, 43, 228, 186,
           31, 250, 0, 173, 48, 248, 118, 123, 58, 130, 56, 76, 101, 116, 240,
           36, 195, 17, 226, 164, 129, 51, 43, 8, 239, 127, 65, 121, 120, 145,
           193, 100, 111, 72 >>
      check256 ==
        << 157, 21, 30, 239, 216, 89, 11, 137, 218, 166, 186, 108, 183, 74, 249,
           39, 93, 208, 81, 2, 107, 177, 73, 164, 82, 253, 132, 229, 229, 123,
           85, 0 >>
  IN  (digest # NotCalled /\ stribog.data = TestM1) =>
        /\ stribog.digest_size = 512 => digest = Return(check512)
        /\ stribog.digest_size = 256 => digest = Return(check256)

C12_Witness ==
  /\ stribog.data = TestM1 /\ stribog.digest_size = 256 /\ stribog.updates = 0
  /\ Returned(digest) /\ Len(digest.value) = 32
  /\ digest.value[32] = 0

\* Whether a is b with some of its elements deleted.
RECURSIVE C15_IsSubsequence(_, _, _, _)
C15_IsSubsequence(a, i, b, j) ==
  IF i > Len(a) THEN TRUE
  ELSE IF j > Len(b) THEN FALSE
  ELSE IF a[i] = b[j] THEN C15_IsSubsequence(a, i + 1, b, j + 1)
  ELSE C15_IsSubsequence(a, i, b, j + 1)

C17_KeypairReadOnly ==
  [][/\ rsa_instance'.e = rsa_instance.e
     /\ rsa_instance'.d = rsa_instance.d
     /\ rsa_instance'.n = rsa_instance.n]_vars

\* All four calls have been made on the instance, the wrappers before the
\* methods.
C17_Witness ==
  /\ rsa_instance \in { gen_keys(rsa) : rsa \in KeyPairs }
  /\ Returned(rsa_cipher_b64) /\ rsa_text # NotCalled
  /\ Returned(cypher) /\ decrypted_message # NotCalled

C19_AcceptedAtMostOnce ==
  \A r1, r2 \in 1 .. Len(requests) :
    /\ r1 # r2
    /\ requests[r1].op = "verify_login_code" /\ requests[r1].status = 200
    /\ requests[r2].op = "verify_login_code" /\ requests[r2].status = 200
    => requests[r1].held \cap requests[r2].held = { }

\* The request r of a user for a text by its id comes to its end in this step.
C20_Completes(r) ==
  /\ r \in 1 .. Len(text_requests')
  /\ text_requests'[r].op \in { "get_text", "update_text", "delete_text" }
  /\ text_requests'[r].pc = "done"
  /\ r > Len(text_requests) \/ text_requests[r].pc # "done"

\* The text the request r names is missing or stored under another user_id.
C20_NotOwned(r) ==
  LET q == text_requests'[r]
  IN  q.text_id \notin 1 .. Len(texts) \/ texts[q.text_id].user_id # q.user_id

\* C20: get_text, update_text and delete_text with user id u answer 200 only
\* on a text stored under user_id u; on a text of another user or a missing
\* id they leave every stored text as it was and answer 404, except that
\* update_text answers 400 where the body of the request does not pass its
\* checks, which come before the lookup.
C20_OwnerOnly ==
  [][\A r \in 1 .. Len(text_requests') :
       C20_Completes(r) =>
         LET q == text_requests'[r]
         IN  /\ q.status = 200 => ~C20_NotOwned(r)
             /\ C20_NotOwned(r) =>
                  /\ texts' = texts
                  /\ q.status = IF q.op = "update_text" /\ ValidateUpdate(q.update_data) # 0
                                THEN 400 ELSE 404]_vars

\* Requests for the text of another user have been answered: an update_text
\* with a body that passes the checks, and one more.
C20_Witness ==
  /\ Len(text_requests) = 2
  /\ \A r \in 1 .. 2 :
       /\ text_requests[r].pc = "done" /\ text_requests[r].status = 404
       /\ text_requests[r].text_id \in 1 .. Len(texts)
       /\ texts[text_requests[r].text_id].user_id # text_requests[r].user_id
  /\ text_requests[1].op = "update_text"
  /\ text_requests[2].op \in { "get_text", "delete_text" }

\* C20 as stated: on a text of another user or a missing id the answer is
\* 404 always.
C20_NotFoundAlways ==
  [][\A r \in 1 .. Len(text_requests') :
       C20_Completes(r) =>
         LET q == text_requests'[r]
         IN  /\ q.status = 200 => ~C20_NotOwned(r)
             /\ C20_NotOwned(r) => texts' = texts /\ q.status = 404]_vars

\* A cleanup_expired_codes request is answered in this step.
C21_Cleanup ==
  /\ Len(requests') = Len(requests) + 1
  /\ requests'[Len(requests')].op = "cleanup_expired_codes"

\* C21: cleanup_expired_codes removes all expired codes: after it no stored
\* code, active or not, used or not, expires before the time of the cleanup,
\* no code that has not expired is removed, and the count returned is the
\* number of codes removed.
C21_AllExpiredRemoved ==
  [][C21_Cleanup =>
       /\ \A row \in temp_codes' : ~(row.expires_at < utcnow)
       /\ \A row \in temp_codes : ~(row.expires_at < utcnow) => row \in temp_codes'
       /\ requests'[Len(requests')].deleted_count
            = Cardinality(temp_codes) - Cardinality(temp_codes')]_vars

\* C22: every stored text row has the encryption type "rsa" or
\* "grasshopper", and every create_text or update_text request that named
\* another encryption type, the empty string included, for a text there
\* is, was answered 400.
C22_KnownTypesOnly ==
  /\ \A i \in 1 .. Len(texts) : texts[i].encryption_type \in EncryptionTypes
  /\ \A r \in 1 .. Len(text_requests) :
       /\ text_requests[r].op \in { "create_text", "update_text" }
       /\ text_requests[r].pc = "done"
       /\ text_requests[r].status # 404
       /\ text_requests[r].update_data.encryption_type # None
       /\ text_requests[r].update_data.encryption_type[1] \notin EncryptionTypes
       => text_requests[r].status = 400

\* The GF(2^8) weighted sum of the first n bytes of x with the coefficient
\* vector, multiplied out product by product.
RECURSIVE C24_WeightedSum(_, _)
C24_WeightedSum(x, n) ==
  IF n = 0 THEN 0
  ELSE LET rest == C24_WeightedSum(x, n - 1)
       IN  Strict(rest, Xor(kuznechik_multiplication(x[n], LinearC[n]), rest))

\* One step moving the register right by 8 bits, the sum entering as the
\* high byte.
C24_StepHigh(x) == << C24_WeightedSum(x, BlockLen) >> \o SubSeq(x, 1, BlockLen - 1)

\* One step moving the register left by 8 bits, the sum entering as the
\* low byte.
C24_StepLow(x) == SubSeq(x, 2, BlockLen) \o << C24_WeightedSum(x, BlockLen) >>

RECURSIVE C24_Steps(_, _, _)
C24_Steps(Step(_), x, n) ==
  IF n = 0 THEN x ELSE LET y == Step(x) IN Strict(y, C24_Steps(Step, y, n - 1))

C24_Within128(x) == Len(x) = BlockLen /\ \A i \in 1 .. BlockLen : x[i] \in 0 .. 255

\* C24: each of the 16 steps of L computes the GF(2^8) weighted sum of the
\* 16 bytes with the coefficient vector, shifts the 128-bit value right by
\* 8 bits and puts the computed byte into the vacated high byte; the
\* result stays within 128 bits.
C24_ShiftRightInjectHigh ==
  [][/\ applied' = Append(applied, "R") =>
          image' = C24_StepHigh(image) /\ C24_Within128(image')
     /\ applied' = Append(applied, "L") =>
          image' = C24_Steps(C24_StepHigh, image, 16) /\ C24_Within128(image')]_vars

C24_Witness ==
  /\ applied = << "L" >>
  /\ operand = TestMessage
  /\ image = C24_Steps(C24_StepHigh, operand, 16)
  /\ image # C24_Steps(C24_StepLow, operand, 16)

\* C24 as stated: each step shifts the value left by 8 bits and puts the
\* computed byte into the vacated low byte.
C24_ShiftLeftInjectLow ==
  [][/\ applied' = Append(applied, "R") =>
          image' = C24_StepLow(image) /\ C24_Within128(image')
     /\ applied' = Append(applied, "L") =>
          image' = C24_Steps(C24_StepLow, image, 16) /\ C24_Within128(image')]_vars

C23_Zeros == Repeat(0, BLOCKSIZE)

C23_Ones == Repeat(1, BLOCKSIZE)

\* C23: at the start of Stribog.digest, that is at its first call of g, the
\* accumulator h is 64 bytes of 0x00 in 512-bit mode and 64 bytes of 0x01
\* in 256-bit mode, and the checksum and the bit counter N are zero.
C23_StartState ==
  digest_locals # NotCalled =>
    /\ stribog.digest_size = 512 => digest_locals.calls[1].hsh = C23_Zeros
    /\ stribog.digest_size = 256 => digest_locals.calls[1].hsh = C23_Ones
    /\ digest_locals.calls[1].chk = C23_Zeros
    /\ digest_locals.calls[1].n = 0

C23_Witness ==
  /\ digest_locals # NotCalled
  /\ stribog.digest_size = 512
  /\ Len(stribog.data) >= BLOCKSIZE
  /\ digest_locals.calls[1].hsh = C23_Zeros
  /\ digest_locals.calls[1].msg = SubSeq(stribog.data, 1, BLOCKSIZE)

\* C23 as stated: the accumulator starts as 64 bytes of 0x01 in 512-bit mode
\* and as 64 bytes of 0x00 in 256-bit mode.
C23_StartStateSwapped ==
  digest_locals # NotCalled =>
    /\ stribog.digest_size = 512 => digest_locals.calls[1].hsh = C23_Ones
    /\ stribog.digest_size = 256 => digest_locals.calls[1].hsh = C23_Zeros
    /\ digest_locals.calls[1].chk = C23_Zeros
    /\ digest_locals.calls[1].n = 0

\* The bytes at position i of the first j blocks, added up.
RECURSIVE C25_ColumnTotal(_, _, _)
C25_ColumnTotal(blocks, i, j) ==
  IF j = 0 THEN 0 ELSE blocks[j][i] + C25_ColumnTotal(blocks, i, j - 1)

\* The sum modulo 2^512 of the blocks read as little-endian numbers, added
\* column by column from byte i on; done holds the bytes before i.
RECURSIVE C25_Sum512(_, _, _, _)
C25_Sum512(blocks, i, carry, done) ==
  IF i > BLOCKSIZE THEN done
  ELSE LET total == C25_ColumnTotal(blocks, i, Len(blocks)) + carry
           next == Append(done, total % 256)
       IN  Strict(next, C25_Sum512(blocks, i + 1, total \div 256, next))

\* The number of complete 64-byte blocks of the message.
C25_Complete == Len(stribog.data) \div BLOCKSIZE

\* The last block: the bytes after the complete blocks, 0x01, zero bytes.
C25_LastBlock ==
  SubSeq(stribog.data, C25_Complete * BLOCKSIZE + 1, Len(stribog.data))
    \o << 1 >> \o Repeat(0, BLOCKSIZE - 1 - (Len(stribog.data) % BLOCKSIZE))

\* C25: digest compresses each complete 64-byte block of the message in
\* order and then exactly one last block made of the remaining bytes (fewer
\* than 64), one 0x01 byte and zero bytes up to 64 bytes, before the length
\* block and the checksum block; the checksum is the sum modulo 2^512 of
\* exactly those blocks.
C25_BlocksAndChecksum ==
  digest_locals # NotCalled =>
    /\ Len(digest_locals.calls) = C25_Complete + 3
    /\ \A j \in 1 .. C25_Complete :
         digest_locals.calls[j].msg
           = SubSeq(stribog.data, (j - 1) * BLOCKSIZE + 1, j * BLOCKSIZE)
    /\ Len(stribog.data) - C25_Complete * BLOCKSIZE < BLOCKSIZE
    /\ digest_locals.calls[C25_Complete + 1].msg = C25_LastBlock
    /\ Len(C25_LastBlock) = BLOCKSIZE
    /\ digest_locals.chk
         = C25_Sum512([j \in 1 .. C25_Complete + 1 |-> digest_locals.calls[j].msg],
                      1, 0, << >>)
    /\ digest_locals.calls[C25_Complete + 3].msg = digest_locals.chk

\* A message one byte short of two blocks, a carry passing from one byte of
\* its checksum to the next.
C25_Witness ==
  /\ digest_locals # NotCalled
  /\ Len(stribog.data) = 2 * BLOCKSIZE - 1
  /\ Len(digest_locals.calls) = 4
  /\ digest_locals.calls[2].msg[BLOCKSIZE] = 1
  /\ \E i \in 1 .. BLOCKSIZE :
       digest_locals.chk[i]
         # (digest_locals.calls[1].msg[i] + digest_locals.calls[2].msg[i]) % 256

\* v < 2^31 as a little-endian number of 64 bytes.
C26_LittleEndian(v) ==
  [i \in 1 .. BLOCKSIZE |-> IF i <= 4 THEN (v \div Pow2(8 * (i - 1))) % 256 ELSE 0]

\* C26: the k-th complete block is compressed with N = 512 * (k - 1), the
\* padded last block with N = 512 times the number of complete blocks; N then
\* grows by the bit length of the bytes after the complete blocks, so the
\* block compressed by the first of the two last calls of g, both made with
\* the counter argument 0, is 8 times the length of the message in bytes as a
\* little-endian number.
C26_BitCounter ==
  digest_locals # NotCalled =>
    LET complete == Len(stribog.data) \div BLOCKSIZE
    IN  /\ \A k \in 1 .. complete : digest_locals.calls[k].n = 512 * (k - 1)
        /\ digest_locals.calls[complete + 1].n = 512 * complete
        /\ digest_locals.n
             = 512 * complete + 8 * (Len(stribog.data) - complete * BLOCKSIZE)
        /\ digest_locals.n = 8 * Len(stribog.data)
        /\ digest_locals.calls[complete + 2].n = 0
        /\ digest_locals.calls[complete + 2].msg = C26_LittleEndian(8 * Len(stribog.data))
        /\ digest_locals.calls[complete + 3].n = 0

\* 65 bytes: the blocks are compressed with N = 0 and N = 512, the length
\* block holds 520 = 0x0208.
C26_Witness ==
  /\ digest_locals # NotCalled
  /\ Len(stribog.data) = BLOCKSIZE + 1
  /\ digest_locals.calls[1].n = 0
  /\ digest_locals.calls[2].n = 512
  /\ digest_locals.n = 520
  /\ digest_locals.calls[3].msg[1] = 8
  /\ digest_locals.calls[3].msg[2] = 2

\* C27: Stribog.digest returns all 64 bytes of the last accumulator h in
\* 512-bit mode and the high 32 bytes of h (bytes 32..63 of the 64 bytes) in
\* 256-bit mode.
C27_HighHalf ==
  digest_locals # NotCalled =>
    /\ Returned(digest)
    /\ digest_locals.hsh
         = stribog_g(0, digest_locals.calls[Len(digest_locals.calls)].hsh, digest_locals.chk)
    /\ stribog.digest_size = 512 => digest.value = digest_locals.hsh
    /\ stribog.digest_size = 256 =>
         digest.value = [i \in 1 .. 32 |-> digest_locals.hsh[32 + i]]

C27_Witness ==
  /\ digest_locals # NotCalled
  /\ stribog.digest_size = 256
  /\ stribog.data = TestM1
  /\ Len(digest.value) = 32
  /\ digest.value[1] = digest_locals.hsh[33]
  /\ digest.value # [i \in 1 .. 32 |-> digest_locals.hsh[i]]

\* C27 as stated: in 256-bit mode digest returns the low 32 bytes of h (bytes
\* 0..31 of the 64 bytes).
C27_LowHalf ==
  digest_locals # NotCalled =>
    /\ Returned(digest)
    /\ stribog.digest_size = 512 => digest.value = digest_locals.hsh
    /\ stribog.digest_size = 256 =>
         digest.value = [i \in 1 .. 32 |-> digest_locals.hsh[i]]

\* The text of the row is what the scheme its encryption type names makes of
\* some plain text: the scheme decrypts it, and encrypts what it decrypted to
\* the same text.
C28_EnvelopeOfType(row) ==
  LET opened == DecryptStored(row.encryption_type, row.text)
  IN  /\ opened.status = 0
      /\ EncryptToSave(row.encryption_type, opened.text) = [status |-> 0, text |-> row.text]

\* Row i is new in this step, or its text or its encryption type was written.
C28_Written(i) ==
  \/ i > Len(texts)
  \/ texts'[i].text # texts[i].text
  \/ texts'[i].encryption_type # texts[i].encryption_type

C29_TypeOnlyWritten(r) ==
  /\ text_requests[r].op = "update_text"
  /\ text_requests[r].pc = "repository.update_text"
  /\ text_requests'[r].pc = "done"
  /\ \A o \in 1 .. Len(text_requests) : o # r => text_requests[o].op # "update_text"
  /\ text_requests[r].given.text = None
  /\ text_requests[r].given.encryption_type # None
  /\ text_requests[r].given.encryption_type[1] \in EncryptionTypes
  /\ text_requests[r].text_id \in 1 .. Len(texts)
  /\ texts[text_requests[r].text_id].encryption_type \in EncryptionTypes
  /\ texts[text_requests[r].text_id].encryption_type
       # text_requests[r].given.encryption_type[1]

\* What get_text returns for the row.
C29_Plain(row) == DecryptStored(row.encryption_type, row.text)

\* C29: an update_text that changes only the encryption type (rsa to
\* grasshopper or grasshopper to rsa, no text given) stores the text
\* encrypted again under the new scheme, and the text it returns and the
\* text get_text returns afterwards are the text get_text returned before,
\* for every text create_text accepts.
C29_PlainTextKept ==
  [][\A r \in 1 .. Len(text_requests) :
       C29_TypeOnlyWritten(r) =>
         LET before == texts[text_requests[r].text_id]
             after == texts'[text_requests[r].text_id]
         IN  C29_Plain(before).status = 0 =>
               /\ after.encryption_type = text_requests[r].given.encryption_type[1]
               /\ C28_EnvelopeOfType(after)
               /\ text_requests'[r].status = 200
               /\ text_requests'[r].response = Some(C29_Plain(before).text)
               /\ C29_Plain(after) = C29_Plain(before)]_vars

\* Every request there is has ended.
C30_Quiescent == \A r \in 1 .. Len(requests) : requests[r].pc = "done"

\* C30: after any sequence and any interleaving of send_login_code and
\* verify_login_code requests, once every request has ended, each user has at
\* most one login_confirmation code that is both active and unused.
C30_AtMostOneActive ==
  C30_Quiescent =>
    \A u \in 1 .. MaxUsers : Cardinality(ActiveUnusedCodes(u, LoginConfirmation)) <= 1

====
